---- MODULE Spec2Model ----
(***************************************************************************)
(* A model of the deployspec compiler (core_deployspec/compiler.py) and of *)
(* the part of the Lambda handler (core_deployspec/handler.py) that drives *)
(* it.                                                                     *)
(*                                                                         *)
(* Python values are modelled as follows.  A str that is only compared or  *)
(* concatenated is a TLA+ string; None and "" are both "" (the code tests  *)
(* them by truthiness only).  A list is a sequence; None and [] are both   *)
(* <<>>.  A dict is a function whose DOMAIN is the set of keys present.    *)
(* A str that a regular expression or a substring test looks into is a     *)
(* sequence of one-character strings.                                      *)
(***************************************************************************)
EXTENDS Integers, Sequences, FiniteSets, TLC

VARIABLES
    deployspec,          \* DeploySpec.actions: the list of ActionResource entries
    deployment_details,  \* task_payload.deployment_details
    default_region,      \* what util.get_region() returns in this process
    pc,                  \* position in handler / compile_deployspec
    spec_label_map,      \* compile_deployspec's local spec_label_map
    idx,                 \* index of the entry the for loop of compile_deployspec is at
    compiled_actions,    \* compile_deployspec's local compiled_actions
    error,               \* the exception raised, "" when none
    returned,            \* what compile_deployspec returned: <<>> or one list of actions
    saved_actions,       \* the lists save_actions was called with, in call order
    loaded,              \* the deployspec and deployment details as the run received them
    parameters,          \* the dict __apply_syntax_update works on
    history,             \* that dict as constructed and as each call on it left it
    scope_args,          \* the action and deployment details scope is resolved for
    scope_result,        \* what __get_action_scope returned for them, "" before the call
    stack_scope_result,  \* what __get_stack_scope returned for the stack name, "" before
    call_args,           \* the arguments of one call of a compiler function, by name
    call_result,         \* what that call returned and left behind, <<>> before the call
    package,             \* task_payload.package: its key and what the package store holds
    rival_package,       \* the package of the second of two concurrent runs
    run_pos,             \* per run: the archive entry __process_package_zip is at
    run_specs,           \* per run: the local `specs` of the loader
    run_result,          \* per run: what load_deployspec returned, <<>> before it did
    puts,                \* per run: the keys it called put_object with, in call order
    sink,                \* the artefacts bucket: key -> body
    event,               \* the event the handler is invoked with
    faults,              \* the external calls that raise in this run
    h_pc,                \* position in handler
    specs,               \* handler's local `specs`
    task_idx,            \* index of the task the handler's for loop is at
    summary,             \* handler's local compilation_summary, <<>> before it is set
    h_actions,           \* handler's local `actions`: what compile_deployspec returned
    h_log,               \* the external calls the handler made, in call order
    h_error,             \* the exception the handler's try block raised, "" when none
    response             \* what the handler returned or raised, <<>> before

compile_vars == <<deployspec, deployment_details, default_region, pc, spec_label_map,
                  idx, compiled_actions, error, returned, saved_actions, loaded>>
syntax_vars == <<parameters, history>>
scope_vars == <<scope_args, scope_result, stack_scope_result>>
call_vars == <<call_args, call_result>>
load_vars == <<package, rival_package, run_pos, run_specs, run_result, puts, sink>>
handler_vars == <<event, faults, h_pc, specs, task_idx, summary, h_actions, h_log, h_error,
                  response>>
vars == <<compile_vars, syntax_vars, scope_vars, call_vars, load_vars, handler_vars>>

----------------------------------------------------------------------------
(* Python dict and list primitives                                         *)

EmptyDict == [k \in {} |-> ""]

Put(d, k, v) == [x \in DOMAIN d \cup {k} |-> IF x = k THEN v ELSE d[x]]

\* dict.update(other)
Update(d, other) ==
    [x \in DOMAIN d \cup DOMAIN other |-> IF x \in DOMAIN other THEN other[x] ELSE d[x]]

\* x in list
Contains(list, x) == \E i \in 1..Len(list) : list[i] = x

\* dict.get(key) of a key that holds a list: None and [] are both <<>>
GetList(d, k) == IF k \in DOMAIN d THEN d[k] ELSE <<>>

\* dict.get(key) of a key that holds a str: None and "" are both ""
GetStr(d, k) == IF k \in DOMAIN d THEN d[k] ELSE ""

\* Flattening of a list of lists, in order
RECURSIVE Flatten(_)
Flatten(lists) ==
    IF lists = <<>> THEN <<>> ELSE Head(lists) \o Flatten(Tail(lists))

----------------------------------------------------------------------------
(* compiler.py: __delkeys                                                  *)
delkeys(keys, data) == [x \in DOMAIN data \ keys |-> data[x]]

(* compiler.py: __getany: the value of the first key that holds a non-empty *)
(* value, else the default.  `none` is the empty value of the type the     *)
(* keys hold ("" for a str, <<>> for a str that is looked into), which is  *)
(* also what the callers pass, or treat, as the default.                   *)
RECURSIVE getany(_, _, _)
getany(data, keys, none) ==
    IF keys = <<>> THEN none
    ELSE IF Head(keys) \in DOMAIN data /\ data[Head(keys)] # none THEN data[Head(keys)]
    ELSE getany(data, Tail(keys), none)

----------------------------------------------------------------------------
(* compiler.py: get_accounts_regions.  `accounts` is the very list object  *)
(* held by the entry's spec when that list is non-empty, so the append     *)
(* changes the spec too; the operator returns the two lists and the spec   *)
(* as the call leaves it.                                                  *)

\* the key of spec whose list object `accounts` aliases, "" for a fresh list
AliasedKey(spec, lower, upper) ==
    IF GetList(spec, lower) # <<>> THEN lower
    ELSE IF GetList(spec, upper) # <<>> THEN upper
    ELSE ""

\* a or b
OrStr(a, b) == IF a # "" THEN a ELSE b
OrList(a, b) == IF a # <<>> THEN a ELSE b

\* if x and x not in list: list.append(x)
AppendIfNew(list, x) ==
    IF x # "" /\ ~Contains(list, x) THEN Append(list, x) ELSE list

get_accounts_regions(spec, region_default) ==
    LET akey    == AliasedKey(spec, "accounts", "Accounts")
        account == OrStr(GetStr(spec, "account"), GetStr(spec, "Account"))
        accounts == AppendIfNew(IF akey = "" THEN <<>> ELSE spec[akey], account)
        spec1   == IF akey = "" THEN spec ELSE [spec EXCEPT ![akey] = accounts]
        rkey    == AliasedKey(spec1, "regions", "Regions")
        region  == OrStr(OrStr(GetStr(spec1, "region"), GetStr(spec1, "Region")),
                         region_default)
        regions == AppendIfNew(IF rkey = "" THEN <<>> ELSE spec1[rkey], region)
        spec2   == IF rkey = "" THEN spec1 ELSE [spec1 EXCEPT ![rkey] = regions]
    IN  [accounts |-> accounts, regions |-> regions, spec |-> spec2]

(* compiler.py: __get_action_name                                          *)
get_action_name(action_resource, account, region) ==
    action_resource.label \o "-" \o account \o "-" \o region

\* [(account, region) for account in accounts for region in regions]
Pairs(accounts, regions) ==
    [k \in 1..(Len(accounts) * Len(regions)) |->
        [account |-> accounts[((k - 1) \div Len(regions)) + 1],
         region  |-> regions[((k - 1) % Len(regions)) + 1]]]

\* a get_region_account_labels that walks the regions in the outer loop
get_region_account_labels_regions_outer(action_resource, region_default) ==
    LET ar == get_accounts_regions(action_resource.spec, region_default)
        pairs == Pairs(ar.regions, ar.accounts)
    IN  [k \in 1..Len(pairs) |->
            get_action_name(action_resource, pairs[k].region, pairs[k].account)]

(* compiler.py: get_region_account_labels                                  *)
get_region_account_labels(action_resource, region_default) ==
    LET ar == get_accounts_regions(action_resource.spec, region_default)
        pairs == Pairs(ar.accounts, ar.regions)
    IN  [k \in 1..Len(pairs) |->
            get_action_name(action_resource, pairs[k].account, pairs[k].region)]

\* the entry as a get_accounts_regions call on it leaves it
Touched(action_resource, region_default) ==
    [action_resource EXCEPT
        !.spec = get_accounts_regions(action_resource.spec, region_default).spec]

(* compiler.py: get_spec_label_map: the map after entries i.. are added to m *)
RECURSIVE LabelMapFrom(_, _, _, _)
LabelMapFrom(actions, i, m, region_default) ==
    IF i > Len(actions) THEN m
    ELSE LabelMapFrom(actions, i + 1,
                      Put(m, actions[i].label,
                          get_region_account_labels(actions[i], region_default)),
                      region_default)

get_spec_label_map(actions, region_default) ==
    LabelMapFrom(actions, 1, EmptyDict, region_default)

----------------------------------------------------------------------------
(* Strings that are looked into, as sequences of characters                *)

\* sub in s
IsIn(sub, s) ==
    \E i \in 1..(Len(s) - Len(sub) + 1) : SubSeq(s, i, i + Len(sub) - 1) = sub

(* core_framework.constants, as imported by compiler.py                    *)
SCOPE_PORTFOLIO == "portfolio"
SCOPE_APP == "app"
SCOPE_BRANCH == "branch"
SCOPE_BUILD == "build"
DD_PORTFOLIO == <<"P", "o", "r", "t", "f", "o", "l", "i", "o">>
DD_APP == <<"A", "p", "p">>
DD_BRANCH == <<"B", "r", "a", "n", "c", "h">>
DD_BUILD == <<"B", "u", "i", "l", "d">>
TAG_PORTFOLIO == "Portfolio"
TAG_APP == "App"
TAG_BRANCH == "Branch"
TAG_BUILD == "Build"
Project == <<"P", "r", "o", "j", "e", "c", "t">>

\* a __get_stack_scope that looks for the app marker before the branch marker
get_stack_scope_app_first(stack_name) ==
    IF IsIn(DD_BUILD, stack_name) THEN SCOPE_BUILD
    ELSE IF IsIn(DD_APP, stack_name) THEN SCOPE_APP
    ELSE IF IsIn(DD_BRANCH, stack_name) THEN SCOPE_BRANCH
    ELSE IF IsIn(DD_PORTFOLIO, stack_name) \/ IsIn(Project, stack_name) THEN SCOPE_PORTFOLIO
    ELSE SCOPE_BUILD

(* compiler.py: __get_stack_scope                                          *)
get_stack_scope(stack_name) ==
    IF IsIn(DD_BUILD, stack_name) THEN SCOPE_BUILD
    ELSE IF IsIn(DD_BRANCH, stack_name) THEN SCOPE_BRANCH
    ELSE IF IsIn(DD_APP, stack_name) THEN SCOPE_APP
    ELSE IF IsIn(DD_PORTFOLIO, stack_name) \/ IsIn(Project, stack_name) THEN SCOPE_PORTFOLIO
    ELSE SCOPE_BUILD

\* a __get_action_scope that asks the deployment before the action
get_action_scope_deployment_first(action, dd) ==
    IF dd.scope # "" THEN dd.scope
    ELSE IF action.scope # "" THEN action.scope
    ELSE get_stack_scope(getany(action.spec, <<"stack_name", "StackName">>, <<>>))

(* compiler.py: __get_action_scope                                         *)
get_action_scope(action, dd) ==
    IF action.scope # "" THEN action.scope
    ELSE IF dd.scope # "" THEN dd.scope
    ELSE get_stack_scope(getany(action.spec, <<"stack_name", "StackName">>, <<>>))

----------------------------------------------------------------------------
\* a __get_tags that merges the user's tags first, so that computed tags win
get_tags_computed_last(scope, dd, user_tags) ==
    LET sc == IF scope = "" THEN SCOPE_BUILD ELSE scope
        t0 == Update(dd.tags, user_tags)
        t1 == IF dd.portfolio # "" THEN Put(t0, TAG_PORTFOLIO, dd.portfolio) ELSE t0
        t2 == IF sc \in {SCOPE_APP, SCOPE_BRANCH, SCOPE_BUILD} /\ dd.app # ""
              THEN Put(t1, TAG_APP, dd.app) ELSE t1
        t3 == IF sc \in {SCOPE_BRANCH, SCOPE_BUILD} /\ dd.branch # ""
              THEN Put(t2, TAG_BRANCH, dd.branch) ELSE t2
        t4 == IF sc = SCOPE_BUILD /\ dd.build # ""
              THEN Put(t3, TAG_BUILD, dd.build) ELSE t3
    IN  [tags |-> t4,
         deployment_details |-> IF dd.tags # EmptyDict THEN [dd EXCEPT !.tags = t4] ELSE dd]

(* compiler.py: __get_tags.  `tags` is deployment_details.tags itself when *)
(* that dict is non-empty (`deployment_details.tags or {}`), so every      *)
(* assignment to `tags` is an assignment to the deployment details too;    *)
(* the operator returns the tags and the deployment details as the call    *)
(* leaves them.  user_tags None and {} are both EmptyDict.                 *)
get_tags(scope, dd, user_tags) ==
    LET sc == IF scope = "" THEN SCOPE_BUILD ELSE scope
        t0 == dd.tags
        t1 == IF dd.portfolio # "" THEN Put(t0, TAG_PORTFOLIO, dd.portfolio) ELSE t0
        t2 == IF sc \in {SCOPE_APP, SCOPE_BRANCH, SCOPE_BUILD} /\ dd.app # ""
              THEN Put(t1, TAG_APP, dd.app) ELSE t1
        t3 == IF sc \in {SCOPE_BRANCH, SCOPE_BUILD} /\ dd.branch # ""
              THEN Put(t2, TAG_BRANCH, dd.branch) ELSE t2
        t4 == IF sc = SCOPE_BUILD /\ dd.build # ""
              THEN Put(t3, TAG_BUILD, dd.build) ELSE t3
        t5 == Update(t4, user_tags)
    IN  [tags |-> t5,
         deployment_details |-> IF dd.tags # EmptyDict THEN [dd EXCEPT !.tags = t5] ELSE dd]

----------------------------------------------------------------------------
\* compiler.py: __apply_syntax_update.  re.sub on a str without newlines, with
\* the pattern       OPEN, not followed by "core" and one more character,
\*                   group 1: a run of non-dots, a dot, group 2: anything, CLOSE
\* and a replacement REPL_HEAD group 1 "/" group 2 REPL_TAIL.

OPEN == <<"{", "{", " ">>
CLOSE == <<" ", "}", "}">>
CONTEXT_ROOT == <<"c", "o", "r", "e">>
REPL_HEAD == <<"{", "{", " ", "\"">>
REPL_TAIL == <<"\"", " ", "|", " ", "l", "o", "o", "k", "u", "p", " ", "}", "}">>

Min(S) == CHOOSE x \in S : \A y \in S : x <= y
Max(S) == CHOOSE x \in S : \A y \in S : x >= y

\* (?!core.) at position p: "core" and one more character do not follow
Lookahead(s, p) ==
    ~(p + 4 <= Len(s) /\ SubSeq(s, p, p + 3) = CONTEXT_ROOT)

\* ([^.]*)\. from position p: the run of non-dots ends at the first dot
Dots(s, p) == {d \in p..Len(s) : s[d] = "."}

\* (.*) }} from position q: the greedy .* backs off to the last " }}"
Closes(s, q) == {e \in q..(Len(s) - 2) : SubSeq(s, e, e + 2) = CLOSE}

\* whether the pattern matches with its first character at i
Matches(s, i) ==
    /\ i + 2 <= Len(s)
    /\ SubSeq(s, i, i + 2) = OPEN
    /\ Lookahead(s, i + 3)
    /\ Dots(s, i + 3) # {}
    /\ Closes(s, Min(Dots(s, i + 3)) + 1) # {}

\* re.sub on s[from..]: leftmost match first, then on from behind the match
RECURSIVE Sub(_, _)
Sub(s, from) ==
    LET starts == {i \in from..Len(s) : Matches(s, i)}
    IN  IF starts = {} THEN SubSeq(s, from, Len(s))
        ELSE LET i == Min(starts)
                 d == Min(Dots(s, i + 3))
                 e == Max(Closes(s, d + 1))
             IN  SubSeq(s, from, i - 1)
                 \o REPL_HEAD \o SubSeq(s, i + 3, d - 1) \o <<"/">>
                 \o SubSeq(s, d + 1, e - 1) \o REPL_TAIL
                 \o Sub(s, e + 3)

re_sub(s) == Sub(s, 1)

\* the dict as the call leaves it (`if not parameters: return None` leaves it empty)
apply_syntax_update(params) == [k \in DOMAIN params |-> re_sub(params[k])]

----------------------------------------------------------------------------
(* The action registry, core_execute.actionlib.factory.ActionFactory, as   *)
(* compiler.py uses it.  Two registered kinds stand for its variants: a    *)
(* stack kind, whose parameter model has template_url, parameters and tags *)
(* and needs a stack name, and a user kind, which has none of the three    *)
(* and needs a user name.                                                  *)

RegisteredKinds == {"create_stack", "create_user"}

\* a registry that accepts every kind
is_valid_action_any(kind) == kind = kind

\* ActionFactory.is_valid_action(kind)
is_valid_action(kind) == kind \in RegisteredKinds

\* hasattr(spec, "template_url"), hasattr(spec, "parameters"), hasattr(spec, "tags")
HasStackFields(kind) == kind = "create_stack"

\* klass.generate_action_parameters(**spec) returns rather than raises
parameters_valid(kind, spec) ==
    IF HasStackFields(kind)
    THEN getany(spec, <<"stack_name", "StackName">>, <<>>) # <<>>
    ELSE GetStr(spec, "user_name") # ""

\* whether the kind's metadata allows fanning out to several stacks
allow_multiple_stacks(kind) == kind = "create_stack"

----------------------------------------------------------------------------
\* a __get_depends_on that passes the labels on as they are
get_depends_on_raw(action, label_map) ==
    IF \E i \in 1..Len(action.depends_on) : action.depends_on[i] \notin DOMAIN label_map
    THEN [error |-> "KeyError", depends_on |-> <<>>]
    ELSE [error |-> "", depends_on |-> action.depends_on]

\* a __get_depends_on that looks labels up with spec_label_map.get(name, [])
get_depends_on_lenient(action, label_map) ==
    [error |-> "",
     depends_on |-> Flatten([i \in 1..Len(action.depends_on) |->
                                GetList(label_map, action.depends_on[i])])]

(* compiler.py: __get_depends_on.  spec_label_map[name] raises KeyError    *)
(* for a name that is not a key of the map.                                *)
get_depends_on(action, label_map) ==
    IF action.depends_on = <<>> THEN [error |-> "", depends_on |-> <<>>]
    ELSE IF \E i \in 1..Len(action.depends_on) : action.depends_on[i] \notin DOMAIN label_map
    THEN [error |-> "KeyError", depends_on |-> <<>>]
    ELSE [error |-> "",
          depends_on |-> Flatten([i \in 1..Len(action.depends_on) |->
                                     label_map[action.depends_on[i]]])]

\* dict.get(key) of a key that holds a dict: None and {} are both EmptyDict
GetDict(d, k) == IF k \in DOMAIN d THEN d[k] ELSE EmptyDict

(* Template references.  A path is the sequence of its components, the     *)
(* string of the path their join with "/".                                 *)

RECURSIVE JoinPath(_)
JoinPath(path) ==
    IF path = <<>> THEN ""
    ELSE IF Len(path) = 1 THEN path[1]
    ELSE path[1] \o "/" \o JoinPath(Tail(path))

\* os.path.basename(template): the last component
basename(path) == IF path = <<>> THEN "" ELSE path[Len(path)]

\* dd.get_artefacts_key(name, scope): the key of the name under the prefix
\* of the scope, the deployment's own scope or build when none is given
artefacts_key(dd, name, scope) ==
    LET sc == IF scope # "" THEN scope
              ELSE IF dd.scope # "" THEN dd.scope ELSE SCOPE_BUILD
        prefix == "artefacts/" \o dd.portfolio
                  \o (IF sc \in {SCOPE_APP, SCOPE_BRANCH, SCOPE_BUILD}
                      THEN "/" \o dd.app ELSE "")
                  \o (IF sc \in {SCOPE_BRANCH, SCOPE_BUILD} THEN "/" \o dd.branch ELSE "")
                  \o (IF sc = SCOPE_BUILD THEN "/" \o dd.build ELSE "")
    IN  prefix \o "/" \o name

bucket_name == "bucket"
store == "s3:/"
sep == "/"

(* compiler.py: __get_template_url                                         *)
get_template_url(dd, template, scope) ==
    store \o sep \o bucket_name \o sep \o artefacts_key(dd, basename(template), scope)

(* compiler.py: __get_action_template_url, "" for None                     *)
get_action_template_url(action_resource, dd) ==
    LET key == getany(action_resource.spec,
                      <<"template_url", "TemplateUrl", "template", "Template">>, <<>>)
    IN  IF key = <<>> THEN ""
        ELSE get_template_url(dd, key, get_action_scope(action_resource, dd))

(* compiler.py: generate_action_command.  Returns the exception raised     *)
(* ("" when none), the compiled action (a list of one, empty when the call *)
(* raised) and the deployment details as the call leaves them.  `entry` is *)
(* the position of the spec entry the action was expanded from and         *)
(* `kwargs` the keyword arguments klass.generate_action_parameters was     *)
(* called with; both are kept for stating properties and are no fields of  *)
(* the compiled action.                                                    *)
generate_action_command(dd, action_resource, label_map, account, region, entry) ==
    LET spec0 == delkeys({"account", "region", "accounts", "regions", "Accounts", "Regions"},
                         action_resource.spec)
        spec  == Put(Put(spec0, "account", account), "region", region)
        stack == HasStackFields(action_resource.kind)
        params == IF stack THEN apply_syntax_update(GetDict(spec, "parameters"))
                  ELSE EmptyDict
        tg    == IF stack THEN get_tags(action_resource.scope, dd, GetDict(spec, "tags"))
                 ELSE [tags |-> EmptyDict, deployment_details |-> dd]
        dep   == get_depends_on(action_resource, label_map)
    IN  IF ~is_valid_action(action_resource.kind)
        THEN [error |-> "ValueError", action |-> <<>>, deployment_details |-> dd]
        ELSE IF ~parameters_valid(action_resource.kind, spec)
        THEN [error |-> "ValidationError", action |-> <<>>, deployment_details |-> dd]
        ELSE IF dep.error # ""
        THEN [error |-> dep.error, action |-> <<>>,
              deployment_details |-> tg.deployment_details]
        ELSE [error |-> "",
              action |-> <<[name |-> get_action_name(action_resource, account, region),
                            kind |-> action_resource.kind,
                            depends_on |-> dep.depends_on,
                            account |-> spec["account"],
                            region |-> spec["region"],
                            template_url |->
                                IF stack THEN get_action_template_url(action_resource, dd)
                                ELSE "",
                            parameters |-> params,
                            tags |-> tg.tags,
                            kwargs |-> spec,
                            entry |-> entry]>>,
              deployment_details |-> tg.deployment_details]

(* compiler.py: compile_action: the two nested for loops, from the k-th    *)
(* (account, region) pair on; an exception ends them.                      *)
RECURSIVE CompilePairs(_, _, _, _, _, _, _)
CompilePairs(action_resource, pairs, k, dd, label_map, action_list, entry) ==
    IF k > Len(pairs)
    THEN [error |-> "", actions |-> action_list, deployment_details |-> dd]
    ELSE LET r == generate_action_command(dd, action_resource, label_map,
                                          pairs[k].account, pairs[k].region, entry)
         IN  IF r.error # ""
             THEN [error |-> r.error, actions |-> action_list,
                   deployment_details |-> r.deployment_details]
             ELSE CompilePairs(action_resource, pairs, k + 1, r.deployment_details,
                               label_map, action_list \o r.action, entry)

compile_action(action_resource, dd, label_map, region_default, entry) ==
    LET ar == get_accounts_regions(action_resource.spec, region_default)
    IN  CompilePairs([action_resource EXCEPT !.spec = ar.spec],
                     Pairs(ar.accounts, ar.regions), 1, dd, label_map, <<>>, entry)

----------------------------------------------------------------------------
(* Inputs                                                                  *)

MaxEntries == 2      \* entries in a deployspec
MaxCalls == 2        \* calls of __apply_syntax_update on one dict

\* the lists of length 0..n over S
ListsUpTo(S, n) == UNION {[1..m -> S] : m \in 0..n}

Entry(label, kind, depends_on, scope, spec) ==
    [label |-> label, kind |-> kind, depends_on |-> depends_on, scope |-> scope,
     spec |-> spec]

\* the target fields of an entry: plural lists, singular values, a mix, none
TargetBoth == [accounts |-> <<"111", "222">>, regions |-> <<"east", "west">>]
TargetOne == [account |-> "111", region |-> "east"]
TargetMixed == [accounts |-> <<"111">>, account |-> "222"]
TargetNone == EmptyDict
Targets == {TargetBoth, TargetOne, TargetMixed, TargetNone}

\* the fields a kind needs besides its targets
BaseSpec(kind) ==
    IF kind = "create_user" THEN [user_name |-> "bob"] ELSE [stack_name |-> <<"s">>]

With(kind, target) == Update(BaseSpec(kind), target)

\* entries that differ in targets, kind, dependencies and validity
TargetEntries ==
    {Entry(l, "create_stack", <<>>, "", With("create_stack", t)) :
        l \in {"vpc", "db"}, t \in Targets}
    \cup {Entry("db", k, <<>>, "", With(k, t)) :
        k \in {"create_user", "bogus"}, t \in {TargetBoth, TargetOne, TargetNone}}
    \cup {Entry("db", "create_stack", d, "", With("create_stack", t)) :
        d \in {<<"vpc">>, <<"gone">>, <<"vpc", "db">>}, t \in {TargetBoth, TargetNone}}
    \cup {Entry("db", "bogus", <<"gone">>, "", With("bogus", TargetOne))}
    \cup {Entry("db", "create_stack", d, "", TargetOne) : d \in {<<>>, <<"gone">>}}

Scopes == {SCOPE_PORTFOLIO, SCOPE_APP, SCOPE_BRANCH, SCOPE_BUILD}

\* entries that differ in scope and user tags
TagEntries ==
    {Entry("vpc", "create_stack", <<>>, sc, Update(With("create_stack", TargetOne), t)) :
        sc \in Scopes \cup {""},
        t \in {EmptyDict, [tags |-> [Owner |-> "me"]], [tags |-> [App |-> "mine"]]}}

DeploymentDetails(tags, scope) ==
    [portfolio |-> "pf", app |-> "ap", branch |-> "br", build |-> "bd",
     tags |-> tags, scope |-> scope]

\* the character sequence of "{{ core.<marker> }}-"
Placeholder(marker) == OPEN \o CONTEXT_ROOT \o <<".">> \o marker \o CLOSE \o <<"-">>

Markers == <<DD_PORTFOLIO, Project, DD_APP, DD_BRANCH, DD_BUILD>>

\* the stack name with the placeholders of the markers whose indices are in S
RECURSIVE PlaceholdersFrom(_, _)
PlaceholdersFrom(S, i) ==
    IF i > Len(Markers) THEN <<>>
    ELSE (IF i \in S THEN Placeholder(Markers[i]) ELSE <<>>) \o PlaceholdersFrom(S, i + 1)

StackNames ==
    {PlaceholdersFrom(S, 1) \o <<"r", "e", "s">> : S \in SUBSET (1..Len(Markers))}
    \cup {<<>>}

\* entries that differ in scope and in the stack name, under either key or both
ScopeEntries ==
    {Entry("vpc", "create_stack", <<>>, sc, sp) :
        sc \in Scopes \cup {""},
        sp \in {[stack_name |-> n] : n \in StackNames}
               \cup {[StackName |-> n] : n \in StackNames}
               \cup {[stack_name |-> n, StackName |-> Placeholder(DD_BUILD)] :
                        n \in StackNames}}

\* the stack name __get_action_scope infers from
StackNameOf(action) == getany(action.spec, <<"stack_name", "StackName">>, <<>>)

\* parameter values, as character sequences
Chars_foo == <<"f", "o", "o">>
Chars_bar == <<"b", "a", "r">>
Chars_baz == <<"b", "a", "z">>
Chars_Build == DD_BUILD
Legacy(ns, path) == OPEN \o ns \o <<".">> \o path \o CLOSE

ParameterValues ==
    {Legacy(Chars_foo, Chars_bar),                         \* {{ foo.bar }}
     Legacy(CONTEXT_ROOT, Chars_Build),                    \* {{ core.Build }}
     Legacy(Chars_foo, Chars_bar \o <<".">> \o Chars_baz), \* {{ foo.bar.baz }}
     Legacy(CONTEXT_ROOT \o <<"x">>, Chars_bar),           \* {{ corex.bar }}
     <<"x", "-">> \o Legacy(Chars_foo, Chars_bar),         \* x-{{ foo.bar }}
     OPEN \o Chars_foo \o CLOSE,                           \* {{ foo }}
     Chars_bar,                                            \* bar
     <<>>}

ParameterKeys == {"BucketName", "Prefix"}

ParameterMaps == UNION {[K -> ParameterValues] : K \in SUBSET ParameterKeys}

----------------------------------------------------------------------------
(* compile_deployspec, driven by the handler                               *)

\* compiler.py: compile_deployspec, up to its for loop
GetSpecLabelMap ==
    /\ pc = "compile"
    /\ spec_label_map' = get_spec_label_map(deployspec, default_region)
    /\ deployspec' = [i \in 1..Len(deployspec) |-> Touched(deployspec[i], default_region)]
    /\ idx' = 1
    /\ pc' = "loop"
    /\ UNCHANGED <<deployment_details, default_region, compiled_actions, error, returned,
                   saved_actions, loaded, syntax_vars, scope_vars,
                   call_vars, load_vars, handler_vars>>

\* compiler.py: compile_deployspec, one iteration of its for loop
CompileEntry ==
    /\ pc = "loop"
    /\ idx <= Len(deployspec)
    /\ LET action_resource == deployspec[idx]
           r == compile_action(action_resource, deployment_details, spec_label_map,
                               default_region, idx)
       IN  IF ~is_valid_action(action_resource.kind)
           THEN /\ error' = "ValueError: Unknown action type"
                /\ pc' = "raised"
                /\ UNCHANGED <<deployspec, deployment_details, compiled_actions, idx>>
           ELSE /\ deployspec' = [deployspec EXCEPT
                                     ![idx] = Touched(action_resource, default_region)]
                /\ deployment_details' = r.deployment_details
                /\ IF r.error # ""
                   THEN /\ error' = r.error
                        /\ pc' = "raised"
                        /\ UNCHANGED <<compiled_actions, idx>>
                   ELSE /\ compiled_actions' = compiled_actions \o r.actions
                        /\ idx' = idx + 1
                        /\ UNCHANGED <<error, pc>>
    /\ UNCHANGED <<default_region, spec_label_map, returned, saved_actions, loaded,
                   syntax_vars, scope_vars,
                   call_vars, load_vars, handler_vars>>

\* compiler.py: compile_deployspec, its return
Return ==
    /\ pc = "loop"
    /\ idx > Len(deployspec)
    /\ returned' = Append(returned, compiled_actions)
    /\ pc' = "returned"
    /\ UNCHANGED <<deployspec, deployment_details, default_region, spec_label_map, idx,
                   compiled_actions, error, saved_actions, loaded, syntax_vars, scope_vars,
                   call_vars, load_vars, handler_vars>>

\* handler.py: save_actions(task_specific_payload, actions)
SaveActions ==
    /\ pc = "returned"
    /\ saved_actions' = Append(saved_actions, returned[Len(returned)])
    /\ pc' = "saved"
    /\ UNCHANGED <<deployspec, deployment_details, default_region, spec_label_map, idx,
                   compiled_actions, error, returned, loaded, syntax_vars, scope_vars,
                   call_vars, load_vars, handler_vars>>

\* handler.py: the except clause, which reports COMPILE_FAILED
HandlerExcept ==
    /\ pc = "raised"
    /\ pc' = "failed"
    /\ UNCHANGED <<deployspec, deployment_details, default_region, spec_label_map, idx,
                   compiled_actions, error, returned, saved_actions, loaded, syntax_vars,
                   scope_vars, call_vars, load_vars, handler_vars>>

InitCompile ==
    /\ pc = "compile"
    /\ spec_label_map = EmptyDict
    /\ idx = 0
    /\ compiled_actions = <<>>
    /\ error = ""
    /\ returned = <<>>
    /\ saved_actions = <<>>
    /\ loaded = [actions |-> deployspec, deployment_details |-> deployment_details]

InitTargets ==
    /\ deployspec \in ListsUpTo(TargetEntries, MaxEntries)
    /\ deployment_details = DeploymentDetails(EmptyDict, "")
    /\ default_region \in {"east", "south"}

InitTags ==
    /\ deployspec \in ListsUpTo(TagEntries, MaxEntries)
    /\ deployment_details \in {DeploymentDetails(t, sc) :
                                  t \in {EmptyDict, [Env |-> "prod"]},
                                  sc \in {"", SCOPE_PORTFOLIO}}
    /\ default_region = "east"

NoSyntax == parameters = EmptyDict /\ history = <<>>
NoScope == scope_args = <<>> /\ scope_result = "" /\ stack_scope_result = ""
NoCalls == call_args = <<>> /\ call_result = <<>>
NoLoad ==
    /\ package = <<>>
    /\ rival_package = <<>>
    /\ run_pos = <<>>
    /\ run_specs = <<>>
    /\ run_result = <<>>
    /\ puts = <<>>
    /\ sink = EmptyDict
NoHandler ==
    /\ event = ""
    /\ faults = {}
    /\ h_pc = "idle"
    /\ specs = <<>>
    /\ task_idx = 0
    /\ summary = <<>>
    /\ h_actions = <<>>
    /\ h_log = <<>>
    /\ h_error = ""
    /\ response = <<>>
NoCompile ==
    /\ deployspec = <<>>
    /\ deployment_details = DeploymentDetails(EmptyDict, "")
    /\ default_region = "east"
    /\ spec_label_map = EmptyDict
    /\ idx = 0
    /\ compiled_actions = <<>>
    /\ error = ""
    /\ returned = <<>>
    /\ saved_actions = <<>>
    /\ loaded = <<>>
    /\ pc = "idle"

Init ==
    /\ InitTargets \/ InitTags
    /\ InitCompile
    /\ NoSyntax
    /\ NoScope
    /\ NoCalls
    /\ NoLoad
    /\ NoHandler

Next ==
    \/ GetSpecLabelMap
    \/ CompileEntry
    \/ Return
    \/ SaveActions
    \/ HandlerExcept

Spec == Init /\ [][Next]_vars

----------------------------------------------------------------------------
(* __apply_syntax_update applied to one parameter dict, again and again    *)

ApplySyntaxUpdate ==
    /\ Len(history) <= MaxCalls
    /\ parameters' = apply_syntax_update(parameters)
    /\ history' = Append(history, parameters')
    /\ UNCHANGED <<compile_vars, scope_vars, call_vars, load_vars, handler_vars>>

InitSyntax ==
    /\ parameters \in ParameterMaps
    /\ history = <<parameters>>
    /\ NoCompile
    /\ NoScope
    /\ NoCalls
    /\ NoLoad
    /\ NoHandler

NextSyntax == ApplySyntaxUpdate

SpecSyntax == InitSyntax /\ [][NextSyntax]_vars

----------------------------------------------------------------------------
(* __get_action_scope and __get_stack_scope, each called once              *)

GetActionScope ==
    /\ scope_result = ""
    /\ scope_result' = get_action_scope(scope_args.action, scope_args.deployment_details)
    /\ UNCHANGED <<compile_vars, syntax_vars, scope_args, stack_scope_result,
                   call_vars, load_vars, handler_vars>>

GetStackScope ==
    /\ stack_scope_result = ""
    /\ stack_scope_result' = get_stack_scope(StackNameOf(scope_args.action))
    /\ UNCHANGED <<compile_vars, syntax_vars, scope_args, scope_result,
                   call_vars, load_vars, handler_vars>>

InitScope ==
    /\ scope_args \in {[action |-> a, deployment_details |-> DeploymentDetails(EmptyDict, sc)] :
                          a \in ScopeEntries, sc \in Scopes \cup {""}}
    /\ scope_result = ""
    /\ stack_scope_result = ""
    /\ NoCompile
    /\ NoSyntax
    /\ NoCalls
    /\ NoLoad
    /\ NoHandler

NextScope == GetActionScope \/ GetStackScope

SpecScope == InitScope /\ [][NextScope]_vars

----------------------------------------------------------------------------
(* The spec loader: load_deployspec and the functions it calls.            *)
(*                                                                         *)
(* A file body is a record of its format ("yaml", "json", or "raw" for     *)
(* anything else), its text and the data it holds.  A package key and an   *)
(* archive entry name are records of the name and its extension, which the *)
(* code tests with endswith.                                               *)

TASK_DEPLOY == "deploy"
TASK_PLAN == "plan"
TASK_APPLY == "apply"
TASK_TEARDOWN == "teardown"

\* spec_mapping: recognized file name -> (reader, task)
spec_mapping ==
    [n \in {"deployspec.yaml", "deployspec.json", "planspec.yaml", "planspec.json",
            "applyspec.yaml", "applyspec.json", "teardownspec.yaml", "teardownspec.json"} |->
        CASE n = "deployspec.yaml" -> [reader |-> "read_yaml", task |-> TASK_DEPLOY]
          [] n = "deployspec.json" -> [reader |-> "read_json", task |-> TASK_DEPLOY]
          [] n = "planspec.yaml" -> [reader |-> "read_yaml", task |-> TASK_PLAN]
          [] n = "planspec.json" -> [reader |-> "read_json", task |-> TASK_PLAN]
          [] n = "applyspec.yaml" -> [reader |-> "read_yaml", task |-> TASK_APPLY]
          [] n = "applyspec.json" -> [reader |-> "read_json", task |-> TASK_APPLY]
          [] n = "teardownspec.yaml" -> [reader |-> "read_yaml", task |-> TASK_TEARDOWN]
          [] n = "teardownspec.json" -> [reader |-> "read_json", task |-> TASK_TEARDOWN]]

\* util.read_yaml / util.read_json followed by DeploySpec(actions=data): whether
\* they return; a JSON text is a YAML text too, not the other way round
reads(reader, body) ==
    IF reader = "read_json" THEN body.fmt = "json" ELSE body.fmt \in {"yaml", "json"}

\* util.to_yaml(data), util.to_json(data): the canonical text of the data
to_yaml(data) == [fmt |-> "yaml", text |-> "canonical", data |-> data]
to_json(data) == [fmt |-> "json", text |-> "canonical", data |-> data]

\* deployment_details.get_artefacts_key(): the deployment's artefact prefix
upload_prefix == "artefacts/pf/ap/br/bd"

\* deployment_details.get_artefacts_key(name)
get_artefacts_key(name) == upload_prefix \o "/" \o name

\* a dict that keeps insertion order: specs[task] = spec
SetSpec(sp, task, spec) ==
    [order |-> IF Contains(sp.order, task) THEN sp.order ELSE Append(sp.order, task),
     map |-> Put(sp.map, task, spec)]

NoSpecs == [order |-> <<>>, map |-> EmptyDict]

\* a put_object that leaves a key that is already there as it is
put_object_keep(bucket, key, body) ==
    IF key \in DOMAIN bucket THEN bucket ELSE Put(bucket, key, body)

\* a put_object that appends to the body a key already has
put_object_append(bucket, key, body) ==
    IF key \in DOMAIN bucket
    THEN Put(bucket, key, [fmt |-> "raw", text |-> "appended", data |-> <<bucket[key], body>>])
    ELSE Put(bucket, key, body)

\* bucket.put_object(Key=key, Body=body)
put_object(bucket, key, body) == Put(bucket, key, body)

\* a loop iteration that uploads the spec files only
process_entry_specs_only(e, sp, bucket) ==
    IF e.name \in DOMAIN spec_mapping
    THEN IF ~reads(spec_mapping[e.name].reader, e.body)
         THEN [error |-> "ParseError", specs |-> sp, bucket |-> bucket, keys |-> <<>>]
         ELSE [error |-> "",
               specs |-> SetSpec(sp, spec_mapping[e.name].task, [actions |-> e.body.data]),
               bucket |-> put_object(bucket, get_artefacts_key(e.name),
                                     to_yaml(e.body.data)),
               keys |-> <<get_artefacts_key(e.name)>>]
    ELSE [error |-> "", specs |-> sp, bucket |-> bucket, keys |-> <<>>]

\* one iteration of the loop of __process_package_zip over the entry `e`:
\* the exception it raises ("" when none), `specs` and the bucket as it leaves
\* them, and the keys it put
process_entry(e, sp, bucket) ==
    IF e.name \in DOMAIN spec_mapping
    THEN IF ~reads(spec_mapping[e.name].reader, e.body)
         THEN [error |-> "ParseError", specs |-> sp, bucket |-> bucket, keys |-> <<>>]
         ELSE LET data == e.body.data
                  upload_data == IF e.ext \in {"yaml", "yml"} THEN to_yaml(data)
                                 ELSE IF e.ext = "json" THEN to_json(data)
                                 ELSE to_yaml(data)
              IN  [error |-> "",
                   specs |-> SetSpec(sp, spec_mapping[e.name].task, [actions |-> data]),
                   bucket |-> put_object(bucket, get_artefacts_key(e.name), upload_data),
                   keys |-> <<get_artefacts_key(e.name)>>]
    ELSE [error |-> "", specs |-> sp,
          bucket |-> put_object(bucket, get_artefacts_key(e.name), e.body),
          keys |-> <<get_artefacts_key(e.name)>>]

\* __load_deployspec_file on the single file the package key names
load_deployspec_file(pkg, bucket) ==
    LET name == pkg.key.name
        known == name \in DOMAIN spec_mapping
        data == IF known THEN pkg.body.data ELSE pkg.body
        sp == IF known
              THEN SetSpec(NoSpecs, spec_mapping[name].task, [actions |-> data])
              ELSE NoSpecs
        upload == IF pkg.key.ext \in {"yaml", "yml"} THEN to_yaml(data) ELSE to_json(data)
        put == put_object(bucket, get_artefacts_key(name), upload)
    IN  IF pkg.key.ext \notin {"yaml", "yml", "json"}
        THEN [error |-> "ValueError", specs |-> NoSpecs, bucket |-> bucket, keys |-> <<>>]
        ELSE IF known /\ ~reads(spec_mapping[name].reader, pkg.body)
        THEN [error |-> "ParseError", specs |-> NoSpecs, bucket |-> bucket, keys |-> <<>>]
        ELSE IF sp = NoSpecs
        THEN [error |-> "Exception", specs |-> NoSpecs, bucket |-> put,
              keys |-> <<get_artefacts_key(name)>>]
        ELSE [error |-> "", specs |-> sp, bucket |-> put,
              keys |-> <<get_artefacts_key(name)>>]

NotLoaded == [done |-> FALSE]

\* a load_deployspec that lets the exception through to its caller
load_deployspec_reraise(err, sp) ==
    IF err # ""
    THEN [done |-> TRUE, raised |-> TRUE, none |-> FALSE, specs |-> NoSpecs, error |-> err]
    ELSE [done |-> TRUE, raised |-> FALSE, none |-> FALSE, specs |-> sp, error |-> ""]

\* load_deployspec's try / except Exception: what it hands to its caller when
\* the code in its try block raised `err` ("" when none) or returned `sp`
load_deployspec_except(err, sp) ==
    IF err # ""
    THEN [done |-> TRUE, raised |-> FALSE, none |-> TRUE, specs |-> NoSpecs, error |-> err]
    ELSE [done |-> TRUE, raised |-> FALSE, none |-> FALSE, specs |-> sp, error |-> ""]

\* __process_package_zip: its loop from the i-th archive entry on, then its
\* check that a spec was found
RECURSIVE process_package_zip(_, _, _, _, _)
process_package_zip(archive, i, sp, bucket, keys) ==
    IF i > Len(archive)
    THEN [error |-> IF sp = NoSpecs THEN "Exception" ELSE "",
          specs |-> sp, bucket |-> bucket, keys |-> keys]
    ELSE LET o == process_entry(archive[i], sp, bucket)
         IN  IF o.error # ""
             THEN [error |-> o.error, specs |-> sp, bucket |-> bucket, keys |-> keys]
             ELSE process_package_zip(archive, i + 1, o.specs, o.bucket, keys \o o.keys)

\* load_deployspec as one step: what it hands to its caller, the bucket as it
\* leaves it and the keys it put
load_deployspec(pkg, bucket) ==
    LET o == IF pkg.key.name = ""
             THEN [error |-> "ValueError", specs |-> NoSpecs, bucket |-> bucket,
                   keys |-> <<>>]
             ELSE IF pkg.key.ext = "zip"
             THEN process_package_zip(pkg.archive, 1, NoSpecs, bucket, <<>>)
             ELSE load_deployspec_file(pkg, bucket)
    IN  [result |-> load_deployspec_except(o.error, o.specs), bucket |-> o.bucket,
         keys |-> o.keys]

----------------------------------------------------------------------------
(* Packages                                                                *)

MaxArchive == 3      \* entries in an archive

\* the deployspecs the files of a package hold
DeployActions ==
    <<Entry("vpc", "create_stack", <<>>, "", With("create_stack", TargetOne))>>
PlanActions ==
    <<Entry("vpc", "create_stack", <<>>, "", With("create_stack", TargetOne)),
      Entry("db", "create_stack", <<"vpc">>, "", With("create_stack", TargetOne))>>
TeardownActions ==
    <<Entry("db", "create_stack", <<"gone">>, "", With("create_stack", TargetOne))>>

File(name, ext, fmt, text, data) ==
    [name |-> name, ext |-> ext, body |-> [fmt |-> fmt, text |-> text, data |-> data]]

\* archive entries: spec files that parse and that do not, a second file of
\* the deploy task, a spec file name below the archive root, other files
ArchiveEntries ==
    {File("deployspec.yaml", "yaml", "yaml", "as written", DeployActions),
     File("deployspec.yaml", "yaml", "raw", "garbled", <<>>),
     File("deployspec.json", "json", "json", "as written", PlanActions),
     File("teardownspec.json", "json", "yaml", "as written", TeardownActions),
     File("planspec.yaml", "yaml", "json", "as written", PlanActions),
     File("templates/vpc.yaml", "yaml", "yaml", "as written", <<>>),
     File("sub/deployspec.yaml", "yaml", "yaml", "as written", DeployActions),
     File("README", "", "raw", "as written", <<>>)}

\* the archives of at most MaxArchive entries, no name twice
Archives ==
    {a \in ListsUpTo(ArchiveEntries, MaxArchive) :
        \A i, j \in 1..Len(a) : a[i].name = a[j].name => i = j}

NoBody == [fmt |-> "raw", text |-> "", data |-> <<>>]

ZipPackages ==
    {[key |-> [name |-> "package.zip", ext |-> "zip"], archive |-> a, body |-> NoBody] :
        a \in Archives}

\* packages whose key names no archive: no key, a spec file that parses and one
\* that does not, a file that is no spec file, a file of another type
FilePackages ==
    {[key |-> [name |-> "", ext |-> ""], archive |-> <<>>, body |-> NoBody]}
    \cup {[key |-> [name |-> e.name, ext |-> e.ext], archive |-> <<>>, body |-> e.body] :
            e \in {f \in ArchiveEntries : f.name \in {"deployspec.yaml", "teardownspec.json",
                                                       "templates/vpc.yaml", "README"}}}

Packages == ZipPackages \cup FilePackages

Runs == {1, 2}

\* the keys the run put, in call order
PutsOf(r) ==
    LET mine == SelectSeq(puts, LAMBDA p : p.run = r)
    IN  [i \in 1..Len(mine) |-> mine[i].key]

Logged(r, keys) == [i \in 1..Len(keys) |-> [run |-> r, key |-> keys[i]]]

\* the package the run loads
PackageOf(r) == IF r = 1 THEN package ELSE rival_package

\* load_deployspec with no package key
LoadNoKey(r) ==
    /\ PackageOf(r).key.name = ""
    /\ ~run_result[r].done
    /\ run_result' = [run_result EXCEPT ![r] = load_deployspec_except("ValueError", NoSpecs)]
    /\ UNCHANGED <<package, rival_package, run_pos, run_specs, puts, sink>>

\* load_deployspec with the key of a single file: __load_deployspec_file
LoadFile(r) ==
    /\ PackageOf(r).key.name # ""
    /\ PackageOf(r).key.ext # "zip"
    /\ ~run_result[r].done
    /\ LET o == load_deployspec_file(PackageOf(r), sink)
       IN  /\ sink' = o.bucket
           /\ puts' = puts \o Logged(r, o.keys)
           /\ run_specs' = [run_specs EXCEPT ![r] = o.specs]
           /\ run_result' = [run_result EXCEPT ![r] = load_deployspec_except(o.error, o.specs)]
    /\ UNCHANGED <<package, rival_package, run_pos>>

\* __process_package_zip: one iteration of its loop over the archive
ZipEntry(r) ==
    /\ PackageOf(r).key.ext = "zip"
    /\ ~run_result[r].done
    /\ run_pos[r] <= Len(PackageOf(r).archive)
    /\ LET o == process_entry(PackageOf(r).archive[run_pos[r]], run_specs[r], sink)
       IN  IF o.error # ""
           THEN /\ run_result' = [run_result EXCEPT
                                     ![r] = load_deployspec_except(o.error, run_specs[r])]
                /\ UNCHANGED <<run_pos, run_specs, puts, sink>>
           ELSE /\ sink' = o.bucket
                /\ puts' = puts \o Logged(r, o.keys)
                /\ run_specs' = [run_specs EXCEPT ![r] = o.specs]
                /\ run_pos' = [run_pos EXCEPT ![r] = @ + 1]
                /\ UNCHANGED run_result
    /\ UNCHANGED <<package, rival_package>>

\* __process_package_zip after its loop, and the return of load_deployspec
ZipFinish(r) ==
    /\ PackageOf(r).key.ext = "zip"
    /\ ~run_result[r].done
    /\ run_pos[r] > Len(PackageOf(r).archive)
    /\ run_result' = [run_result EXCEPT
                         ![r] = load_deployspec_except(
                                    IF run_specs[r] = NoSpecs THEN "Exception" ELSE "",
                                    run_specs[r])]
    /\ UNCHANGED <<package, rival_package, run_pos, run_specs, puts, sink>>

InitLoad ==
    /\ package \in Packages
    /\ rival_package = package
    /\ run_pos = [r \in Runs |-> 1]
    /\ run_specs = [r \in Runs |-> NoSpecs]
    /\ run_result = [r \in Runs |-> NotLoaded]
    /\ puts = <<>>
    /\ sink = EmptyDict
    /\ NoCompile
    /\ NoSyntax
    /\ NoScope
    /\ NoCalls
    /\ NoHandler

NextLoad ==
    \E r \in Runs :
        /\ LoadNoKey(r) \/ LoadFile(r) \/ ZipEntry(r) \/ ZipFinish(r)
        /\ UNCHANGED <<compile_vars, syntax_vars, scope_vars, call_vars, handler_vars>>

SpecLoad == InitLoad /\ [][NextLoad]_vars

----------------------------------------------------------------------------
(* compile_deployspec as one step: the exception it raises ("" when none)  *)
(* and the list it returns                                                 *)
RECURSIVE CompileEntries(_, _, _, _, _, _)
CompileEntries(actions, i, dd, label_map, region_default, compiled) ==
    IF i > Len(actions) THEN [error |-> "", actions |-> compiled]
    ELSE IF ~is_valid_action(actions[i].kind)
    THEN [error |-> "ValueError: Unknown action type", actions |-> <<>>]
    ELSE LET r == compile_action(actions[i], dd, label_map, region_default, i)
         IN  IF r.error # "" THEN [error |-> r.error, actions |-> <<>>]
             ELSE CompileEntries(actions, i + 1, r.deployment_details, label_map,
                                 region_default, compiled \o r.actions)

compile_deployspec(actions, dd, region_default) ==
    CompileEntries(actions, 1, dd, get_spec_label_map(actions, region_default),
                   region_default, <<>>)

----------------------------------------------------------------------------
(* apply_context: the actions as Jinja2Renderer.render_string leaves them. *)
(* An expression {{ <name> }} is replaced by the value the context has for *)
(* the name, by nothing when it has none.                                  *)

\* the facts of the deployment, by the name an expression refers to them with
Facts ==
    [n \in {CONTEXT_ROOT \o <<".">> \o DD_BUILD, CONTEXT_ROOT \o <<".">> \o DD_APP} |->
        IF n = CONTEXT_ROOT \o <<".">> \o DD_BUILD THEN <<"b", "d">> ELSE <<"a", "p">>]

\* the first " }}" at or after position q, 0 if none
FirstClose(s, q) == IF Closes(s, q) = {} THEN 0 ELSE Min(Closes(s, q))

RECURSIVE render_string(_, _, _)
render_string(s, from, state) ==
    LET starts == {i \in from..(Len(s) - 2) :
                      SubSeq(s, i, i + 2) = OPEN /\ FirstClose(s, i + 3) # 0}
    IN  IF starts = {} THEN SubSeq(s, from, Len(s))
        ELSE LET i == Min(starts)
                 e == FirstClose(s, i + 3)
                 name == SubSeq(s, i + 3, e - 1)
             IN  SubSeq(s, from, i - 1)
                 \o (IF name \in DOMAIN state THEN state[name] ELSE <<>>)
                 \o render_string(s, e + 3, state)

\* the entry with the strings of its spec rendered
RenderEntry(a, state) ==
    [a EXCEPT !.spec = [k \in DOMAIN a.spec |->
                            IF k \in {"stack_name", "StackName"}
                            THEN render_string(a.spec[k], 1, state)
                            ELSE a.spec[k]]]

apply_context(actions, context) ==
    [i \in 1..Len(actions) |-> RenderEntry(actions[i], context[CONTEXT_ROOT])]

----------------------------------------------------------------------------
(* handler.py: handler(event, context), one step per call it makes         *)

COMPILE_IN_PROGRESS == "COMPILE_IN_PROGRESS"
COMPILE_COMPLETE == "COMPILE_COMPLETE"
COMPILE_FAILED == "COMPILE_FAILED"

\* a deployspec whose stack name refers to a fact
ApplyActions ==
    <<Entry("vpc", "create_stack", <<>>, "",
            Update([stack_name |-> Placeholder(DD_BUILD) \o <<"r", "e", "s">>], TargetOne))>>
\* a deployspec of an action kind that is not registered
BogusActions ==
    <<Entry("vpc", "create_stack", <<>>, "", With("create_stack", TargetOne)),
      Entry("db", "bogus", <<>>, "", With("bogus", TargetOne))>>

SpecFile(name, data) == File(name, "yaml", "yaml", "as written", data)

\* a deployspec whose stack is created from a template of the package
TemplateActions(template, scope) ==
    <<Entry("vpc", "create_stack", <<>>, scope,
            Update([stack_name |-> <<"s">>, template |-> template], TargetOne))>>

\* the archives the handler is run on: one task, several tasks, a task that
\* fails to compile after or before one that compiles, no spec, a spec that
\* does not parse
HandlerArchives ==
    {<<SpecFile("deployspec.yaml", DeployActions)>>,
     <<SpecFile("planspec.yaml", PlanActions), SpecFile("deployspec.yaml", DeployActions),
       SpecFile("templates/vpc.yaml", <<>>)>>,
     <<SpecFile("deployspec.yaml", DeployActions), SpecFile("applyspec.yaml", ApplyActions),
       SpecFile("teardownspec.yaml", TeardownActions)>>,
     <<SpecFile("teardownspec.yaml", TeardownActions),
       SpecFile("deployspec.yaml", DeployActions)>>,
     <<SpecFile("applyspec.yaml", ApplyActions), SpecFile("planspec.yaml", BogusActions)>>,
     <<File("README", "", "raw", "as written", <<>>)>>,
     <<SpecFile("templates/vpc.yaml", <<>>),
       File("deployspec.yaml", "yaml", "raw", "garbled", <<>>)>>}
    \cup {<<SpecFile("deployspec.yaml", TemplateActions(t, sc)),
            File(JoinPath(t), "yaml", "yaml", "a template", <<>>)>> :
              t \in {<<"vpc.yaml">>, <<"templates", "vpc.yaml">>},
              sc \in {"", SCOPE_BUILD, SCOPE_PORTFOLIO}}

NoKeyPackage == [key |-> [name |-> "", ext |-> ""], archive |-> <<>>, body |-> NoBody]

HandlerPackages ==
    {[key |-> [name |-> "package.zip", ext |-> "zip"], archive |-> a, body |-> NoBody] :
        a \in HandlerArchives}

\* the events: a task payload, a dict with none of its fields, a payload
\* without deployment details, a payload without a package
Events == {"valid", "unrelated", "no_deployment_details", "no_package"}

Tasks == {TASK_DEPLOY, TASK_PLAN, TASK_APPLY, TASK_TEARDOWN}

Call(op, task) == [op |-> op, task |-> task]

\* the calls that raise in a run: at most one of get_facts, and of
\* apply_context, save_actions and save_state for one task
FaultSets ==
    {{}} \cup {{Call("get_facts", "")}}
    \cup {{Call(op, t)} : op \in {"apply_context", "save_actions", "save_state"},
                          t \in Tasks}

NoSummary == <<>>

\* the task the loop is at
Task == specs.order[task_idx]

\* handler's except Exception: the response it returns
handler_except(err, sum, failed_task) ==
    [how |-> "returned", Status |-> COMPILE_FAILED, error |-> err,
     SpecsCompiledBeforeFailure |-> IF sum = NoSummary THEN <<>> ELSE sum.SpecsCompiled,
     FailedTask |-> failed_task]

\* handler.py: task_payload = TaskPayload(**event), log.status(COMPILE_IN_PROGRESS)
ParsePayload ==
    /\ h_pc = "start"
    /\ \E accepted \in BOOLEAN :
           IF event = "valid" \/ (event = "no_package" /\ accepted)
           THEN /\ package' = IF event = "valid" THEN package ELSE NoKeyPackage
                /\ h_log' = Append(h_log, Call("status", COMPILE_IN_PROGRESS))
                /\ h_pc' = "get_context"
                /\ UNCHANGED h_error
           ELSE /\ h_error' = "ValidationError"
                /\ h_pc' = "except"
                /\ UNCHANGED <<package, h_log>>
    /\ UNCHANGED <<event, faults, specs, task_idx, summary, h_actions, response,
                   rival_package, run_pos, run_specs, run_result, puts, sink>>

\* a get_context whose failure the handler survives
GetContextSurvived ==
    /\ h_pc = "get_context"
    /\ h_log' = Append(h_log, Call("get_facts", ""))
    /\ h_pc' = "load_deployspec"
    /\ UNCHANGED <<event, faults, specs, task_idx, summary, h_actions, h_error, response,
                   load_vars>>

\* handler.py: context_data = get_context(task_payload)
GetContext ==
    /\ h_pc = "get_context"
    /\ h_log' = Append(h_log, Call("get_facts", ""))
    /\ IF Call("get_facts", "") \in faults
       THEN h_error' = "FactsError" /\ h_pc' = "except"
       ELSE h_pc' = "load_deployspec" /\ UNCHANGED h_error
    /\ UNCHANGED <<event, faults, specs, task_idx, summary, h_actions, response, load_vars>>

\* handler.py: specs = load_deployspec(task_payload), compilation_summary = {...}
LoadDeployspec ==
    /\ h_pc = "load_deployspec"
    /\ LET o == load_deployspec(package, sink)
       IN  /\ sink' = o.bucket
           /\ puts' = puts \o Logged(1, o.keys)
           /\ h_log' = Append(h_log, Call("load_deployspec", ""))
                       \o [i \in 1..Len(o.keys) |-> Call("put_object", o.keys[i])]
           /\ IF o.result.none
              THEN /\ h_error' = "AttributeError"
                   /\ h_pc' = "except"
                   /\ UNCHANGED <<specs, summary, task_idx>>
              ELSE /\ specs' = o.result.specs
                   /\ summary' = [SpecsFound |-> o.result.specs.order,
                                  SpecsCompiled |-> <<>>,
                                  TotalActionsGenerated |-> 0]
                   /\ task_idx' = 1
                   /\ h_pc' = "apply_context"
                   /\ UNCHANGED h_error
    /\ UNCHANGED <<event, faults, h_actions, response, package, rival_package, run_pos,
                   run_specs, run_result>>

\* handler.py: the loop's spec.actions = apply_context(spec.actions, context_data)
ApplyContext ==
    /\ h_pc = "apply_context"
    /\ task_idx <= Len(specs.order)
    /\ h_log' = Append(h_log, Call("apply_context", Task))
    /\ IF Call("apply_context", Task) \in faults
       THEN h_error' = "ValueError" /\ h_pc' = "except" /\ UNCHANGED specs
       ELSE /\ specs' = [specs EXCEPT !.map[Task].actions =
                            apply_context(@, [c \in {CONTEXT_ROOT} |-> Facts])]
            /\ h_pc' = "compile_deployspec"
            /\ UNCHANGED h_error
    /\ UNCHANGED <<event, faults, task_idx, summary, h_actions, response, load_vars>>

\* handler.py: actions = compile_deployspec(task_specific_payload, spec)
CompileDeployspec ==
    /\ h_pc = "compile_deployspec"
    /\ h_log' = Append(h_log, Call("compile_deployspec", Task))
    /\ LET r == compile_deployspec(specs.map[Task].actions,
                                   DeploymentDetails(EmptyDict, ""), "east")
       IN  IF r.error # ""
           THEN h_error' = r.error /\ h_pc' = "except" /\ UNCHANGED h_actions
           ELSE h_actions' = r.actions /\ h_pc' = "save_actions" /\ UNCHANGED h_error
    /\ UNCHANGED <<event, faults, specs, task_idx, summary, response, load_vars>>

\* handler.py: save_actions(task_specific_payload, actions)
HandlerSaveActions ==
    /\ h_pc = "save_actions"
    /\ h_log' = Append(h_log, Call("save_actions", Task))
    /\ IF Call("save_actions", Task) \in faults
       THEN h_error' = "SaveError" /\ h_pc' = "except"
       ELSE h_pc' = "save_state" /\ UNCHANGED h_error
    /\ UNCHANGED <<event, faults, specs, task_idx, summary, h_actions, response, load_vars>>

\* a loop that lists the task before its state is saved
SaveStateListedFirst ==
    /\ h_pc = "save_state"
    /\ h_log' = Append(h_log, Call("save_state", Task))
    /\ summary' = [summary EXCEPT
                      !.SpecsCompiled = Append(@, Task),
                      !.TotalActionsGenerated = @ + Len(h_actions)]
    /\ IF Call("save_state", Task) \in faults
       THEN h_error' = "SaveError" /\ h_pc' = "except" /\ UNCHANGED task_idx
       ELSE /\ task_idx' = task_idx + 1
            /\ h_pc' = "apply_context"
            /\ UNCHANGED h_error
    /\ UNCHANGED <<event, faults, specs, h_actions, response, load_vars>>

\* handler.py: save_state(task_specific_payload, context_data), then the
\* task is appended to SpecsCompiled and its actions are counted
SaveState ==
    /\ h_pc = "save_state"
    /\ h_log' = Append(h_log, Call("save_state", Task))
    /\ IF Call("save_state", Task) \in faults
       THEN h_error' = "SaveError" /\ h_pc' = "except" /\ UNCHANGED <<summary, task_idx>>
       ELSE /\ summary' = [summary EXCEPT
                              !.SpecsCompiled = Append(@, Task),
                              !.TotalActionsGenerated = @ + Len(h_actions)]
            /\ task_idx' = task_idx + 1
            /\ h_pc' = "apply_context"
            /\ UNCHANGED h_error
    /\ UNCHANGED <<event, faults, specs, h_actions, response, load_vars>>

\* a handler that reports completion once the first task is done
HandlerCompleteEarly ==
    /\ h_pc = "apply_context"
    /\ task_idx > 1
    /\ h_log' = Append(h_log, Call("status", COMPILE_COMPLETE))
    /\ response' = [how |-> "returned", Status |-> COMPILE_COMPLETE, error |-> "",
                    SpecsCompiled |-> summary.SpecsCompiled]
    /\ h_pc' = "done"
    /\ UNCHANGED <<event, faults, specs, task_idx, summary, h_actions, h_error, load_vars>>

\* handler.py: after the loop, log.status(COMPILE_COMPLETE) and the response
HandlerComplete ==
    /\ h_pc = "apply_context"
    /\ task_idx > Len(specs.order)
    /\ h_log' = Append(h_log, Call("status", COMPILE_COMPLETE))
    /\ response' = [how |-> "returned", Status |-> COMPILE_COMPLETE, error |-> "",
                    SpecsCompiled |-> summary.SpecsCompiled]
    /\ h_pc' = "done"
    /\ UNCHANGED <<event, faults, specs, task_idx, summary, h_actions, h_error, load_vars>>

\* handler.py: except Exception as e
HandlerFailed ==
    /\ h_pc = "except"
    /\ h_log' = Append(h_log, Call("status", COMPILE_FAILED))
    /\ response' = handler_except(h_error, summary,
                                  IF task_idx = 0 THEN "" ELSE Task)
    /\ h_pc' = "done"
    /\ UNCHANGED <<event, faults, specs, task_idx, summary, h_actions, h_error, load_vars>>

InitHandler ==
    /\ event \in Events
    /\ faults \in FaultSets
    /\ package \in HandlerPackages
    /\ rival_package = <<>>
    /\ h_pc = "start"
    /\ specs = NoSpecs
    /\ task_idx = 0
    /\ summary = NoSummary
    /\ h_actions = <<>>
    /\ h_log = <<>>
    /\ h_error = ""
    /\ response = <<>>
    /\ run_pos = <<>>
    /\ run_specs = <<>>
    /\ run_result = <<>>
    /\ puts = <<>>
    /\ sink = EmptyDict
    /\ NoCompile
    /\ NoSyntax
    /\ NoScope
    /\ NoCalls

NextHandler ==
    /\ \/ ParsePayload
       \/ GetContext
       \/ LoadDeployspec
       \/ ApplyContext
       \/ CompileDeployspec
       \/ HandlerSaveActions
       \/ SaveState
       \/ HandlerComplete
       \/ HandlerFailed
    /\ UNCHANGED <<compile_vars, syntax_vars, scope_vars, call_vars>>

SpecHandler == InitHandler /\ [][NextHandler]_vars

----------------------------------------------------------------------------
(* Two runs for the same deployment, each with its own package             *)

Template(name, text) == File(name, "yaml", "yaml", text, <<>>)

\* the archives of the two packages: they share file names, with the same
\* or with other contents, and have file names of their own
RivalArchives ==
    {<<SpecFile("deployspec.yaml", DeployActions), Template("vpc.yaml", "first")>>,
     <<SpecFile("deployspec.yaml", PlanActions), Template("vpc.yaml", "second")>>,
     <<Template("vpc.yaml", "second"), SpecFile("deployspec.yaml", DeployActions),
       Template("db.yaml", "second")>>,
     <<File("README", "", "raw", "as written", <<>>)>>}

RivalPackages ==
    {[key |-> [name |-> "package.zip", ext |-> "zip"], archive |-> a, body |-> NoBody] :
        a \in RivalArchives}
    \cup {NoKeyPackage,
          [key |-> [name |-> "deployspec.yaml", ext |-> "yaml"], archive |-> <<>>,
           body |-> [fmt |-> "yaml", text |-> "as written", data |-> TeardownActions]]}

InitRivals ==
    /\ package \in RivalPackages
    /\ rival_package \in RivalPackages
    /\ run_pos = [r \in Runs |-> 1]
    /\ run_specs = [r \in Runs |-> NoSpecs]
    /\ run_result = [r \in Runs |-> NotLoaded]
    /\ puts = <<>>
    /\ sink = EmptyDict
    /\ NoCompile
    /\ NoSyntax
    /\ NoScope
    /\ NoCalls
    /\ NoHandler

SpecRivals == InitRivals /\ [][NextLoad]_vars

----------------------------------------------------------------------------
(* One call of __get_tags or of get_accounts_regions on its own            *)

\* deployment details that differ in their tags and in whether the app is known
TagDeployments ==
    {[DeploymentDetails(t, "") EXCEPT !.app = a] :
        t \in {EmptyDict, [Env |-> "prod"], [Env |-> "prod", App |-> "legacy"]},
        a \in {"ap", ""}}

UserTags ==
    {EmptyDict, [Owner |-> "me"], [App |-> "mine"], [Env |-> "dev", Portfolio |-> "other"]}

TagCalls ==
    {[fn |-> "get_tags", scope |-> sc, deployment_details |-> dd, user_tags |-> u] :
        sc \in Scopes \cup {""}, dd \in TagDeployments, u \in UserTags}

\* the region fields of an entry: plural, singular, both, in either case, none
RegionFields ==
    {EmptyDict,
     [regions |-> <<"east", "west">>],
     [Regions |-> <<"east", "west">>],
     [region |-> "east"],
     [Region |-> "west"],
     [regions |-> <<"east", "west">>, region |-> "north"],
     [regions |-> <<"east", "west">>, region |-> "west"],
     [regions |-> <<"east", "east">>]}

\* the account fields of an entry, likewise
AccountFields ==
    {EmptyDict,
     [accounts |-> <<"111", "222">>],
     [Accounts |-> <<"111">>, Account |-> "222"],
     [account |-> "111"],
     [accounts |-> <<"111", "111">>, account |-> "111"]}

RegionCalls ==
    {[fn |-> "get_accounts_regions",
      action_resource |-> Entry("vpc", "create_stack", <<>>, "",
                                Update(Update(BaseSpec("create_stack"), a), r)),
      region_default |-> d] :
        a \in AccountFields, r \in RegionFields, d \in {"east", "south"}}

\* generate_action_command for one of the (account, region) pairs of an entry
CommandCalls ==
    UNION {LET ar == get_accounts_regions(c.action_resource.spec, c.region_default)
           IN  {[fn |-> "generate_action_command",
                 action_resource |-> Touched(c.action_resource, c.region_default),
                 account |-> a, region |-> r] :
                   a \in {ar.accounts[i] : i \in 1..Len(ar.accounts)},
                   r \in {ar.regions[i] : i \in 1..Len(ar.regions)}} :
           c \in {x \in RegionCalls : x.region_default = "east"}}

NotCalled == [done |-> FALSE]

\* __get_tags(scope, deployment_details, user_tags)
GetTags ==
    /\ call_args.fn = "get_tags"
    /\ ~call_result.done
    /\ LET r == get_tags(call_args.scope, call_args.deployment_details,
                          call_args.user_tags)
       IN  call_result' = [done |-> TRUE, tags |-> r.tags,
                           deployment_details |-> r.deployment_details]
    /\ UNCHANGED <<compile_vars, syntax_vars, scope_vars, call_args, load_vars,
                   handler_vars>>

\* get_accounts_regions(action_resource)
GetAccountsRegions ==
    /\ call_args.fn = "get_accounts_regions"
    /\ ~call_result.done
    /\ LET r == get_accounts_regions(call_args.action_resource.spec,
                                      call_args.region_default)
       IN  call_result' = [done |-> TRUE, accounts |-> r.accounts, regions |-> r.regions,
                           spec |-> r.spec]
    /\ UNCHANGED <<compile_vars, syntax_vars, scope_vars, call_args, load_vars,
                   handler_vars>>

\* generate_action_command(task_payload, action_resource, spec_label_map, account, region)
GenerateActionCommand ==
    /\ call_args.fn = "generate_action_command"
    /\ ~call_result.done
    /\ LET r == generate_action_command(DeploymentDetails(EmptyDict, ""),
                                        call_args.action_resource, EmptyDict,
                                        call_args.account, call_args.region, 1)
       IN  call_result' = [done |-> TRUE, error |-> r.error, action |-> r.action]
    /\ UNCHANGED <<compile_vars, syntax_vars, scope_vars, call_args, load_vars,
                   handler_vars>>

InitCalls ==
    /\ call_args \in TagCalls \cup RegionCalls \cup CommandCalls
    /\ call_result = NotCalled
    /\ NoCompile
    /\ NoSyntax
    /\ NoScope
    /\ NoLoad
    /\ NoHandler

NextCalls == GetTags \/ GetAccountsRegions \/ GenerateActionCommand

SpecCalls == InitCalls /\ [][NextCalls]_vars

----------------------------------------------------------------------------
(* Properties of compile_deployspec                                        *)

Names(actions) == [k \in 1..Len(actions) |-> actions[k].name]

Indices(list) == 1..Len(list)

Labels(actions) == {actions[i].label : i \in Indices(actions)}

HasReturned == returned # <<>>

HasRaised == pc \in {"raised", "failed"}

\* the regions an entry gives: its plural list, then its singular region if new
GivenRegions(spec) ==
    AppendIfNew(OrList(GetList(spec, "regions"), GetList(spec, "Regions")),
                OrStr(GetStr(spec, "region"), GetStr(spec, "Region")))

\* the accounts an entry gives: its plural list, then its singular account if new
GivenAccounts(spec) ==
    AppendIfNew(OrList(GetList(spec, "accounts"), GetList(spec, "Accounts")),
                OrStr(GetStr(spec, "account"), GetStr(spec, "Account")))

\* the target regions of an entry: those it gives, the default if it gives none
TargetRegions(spec, region_default) ==
    IF GivenRegions(spec) = <<>> THEN <<region_default>> ELSE GivenRegions(spec)

\* the names {label}-{account}-{region}, accounts outer, regions inner
TargetNames(entry, region_default) ==
    LET accounts == GivenAccounts(entry.spec)
        regions == TargetRegions(entry.spec, region_default)
    IN  Flatten([a \in Indices(accounts) |->
                    [r \in Indices(regions) |->
                        entry.label \o "-" \o accounts[a] \o "-" \o regions[r]]])

\* C1: once compile_deployspec has returned (so every kind was valid), the
\* names of the returned actions are, entry by entry in spec order, the names
\* {label}-{account}-{region} of the entry's accounts (outer) and regions
\* (inner); accounts [a1, a2] and regions [r1, r2] give exactly 4 actions.
C1_ExpansionIsCrossProduct ==
    HasReturned =>
        Names(returned[1]) =
            Flatten([i \in Indices(loaded.actions) |->
                        TargetNames(loaded.actions[i], default_region)])

----------------------------------------------------------------------------
\* the compiled actions expanded from the entry at position i
ExpandedFrom(actions, i) == SelectSeq(actions, LAMBDA c : c.entry = i)

\* C2: every compiled action expanded from an entry whose depends_on labels
\* are all labels of the spec has, as depends_on, the label map's lists for
\* those labels concatenated in depends_on order; it holds no raw label, and
\* a returned entry has one such action per (account, region) pair.
C2_DependsOnIsExpanded ==
    \A k \in Indices(compiled_actions) :
        LET c == compiled_actions[k]
            e == loaded.actions[c.entry]
        IN  (\A j \in Indices(e.depends_on) : e.depends_on[j] \in Labels(loaded.actions))
            => /\ c.depends_on =
                    Flatten([j \in Indices(e.depends_on) |->
                                spec_label_map[e.depends_on[j]]])
               /\ \A j \in Indices(c.depends_on) :
                    c.depends_on[j] \notin Labels(loaded.actions)
               /\ HasReturned =>
                    Len(ExpandedFrom(returned[1], c.entry)) =
                        Len(get_region_account_labels(e, default_region))

\* an entry with two dependencies, each of several names, has been compiled
C2_Witness ==
    /\ HasReturned
    /\ \E k \in Indices(returned[1]) :
        /\ Len(loaded.actions[returned[1][k].entry].depends_on) = 2
        /\ Len(returned[1][k].depends_on) >= 4
        /\ Len(ExpandedFrom(returned[1], returned[1][k].entry)) >= 4

----------------------------------------------------------------------------
\* the entry's depends_on holds a label that no entry of the spec has
Dangling(actions, i) ==
    \E j \in Indices(actions[i].depends_on) :
        actions[i].depends_on[j] \notin Labels(actions)

\* the entry has a registered kind, parameters that pass validation and at
\* least one target account, so that it is expanded at least once
Expands(actions, i, region_default) ==
    /\ actions[i].kind \in RegisteredKinds
    /\ parameters_valid(actions[i].kind, actions[i].spec)
    /\ GivenAccounts(actions[i].spec) # <<>>

\* C3 as stated, in what it says of the outcome: a dangling label in any entry
\* makes compile_deployspec fail, so that it returns no compiled actions.
C3_AnyDanglingLabelFails ==
    (\E i \in Indices(loaded.actions) : Dangling(loaded.actions, i)) => ~HasReturned

\* C3: a dangling label in an entry that is expanded (registered kind, valid
\* parameters, at least one account) keeps compile_deployspec from returning:
\* when the loop reaches that entry its first expansion raises KeyError; an
\* error is raised only inside the loop, never while the label map is built,
\* and a KeyError only at an entry with a dangling label.
C3_ExpandedDanglingLabelFails ==
    /\ (\E i \in Indices(loaded.actions) :
            Dangling(loaded.actions, i) /\ Expands(loaded.actions, i, default_region))
        => ~HasReturned /\ saved_actions = <<>>
    /\ HasRaised =>
        /\ idx \in Indices(loaded.actions)
        /\ (Dangling(loaded.actions, idx) /\ Expands(loaded.actions, idx, default_region))
            => error = "KeyError" /\ ExpandedFrom(compiled_actions, idx) = <<>>
        /\ error = "KeyError" => Dangling(loaded.actions, idx)
    /\ pc \in {"compile", "loop"} => error = ""

\* the loop compiled a first entry and raised KeyError at a second, dangling one
C3_Witness ==
    /\ pc = "failed"
    /\ error = "KeyError"
    /\ idx = 2
    /\ compiled_actions # <<>>
    /\ Dangling(loaded.actions, 2)

----------------------------------------------------------------------------
HasUnknownKind(actions) == \E i \in Indices(actions) : actions[i].kind \notin RegisteredKinds

FirstUnknownKind(actions) ==
    Min({i \in Indices(actions) : actions[i].kind \notin RegisteredKinds})

\* C4 as stated: an unknown kind at any position makes compile_deployspec fail
\* with the unknown-kind error; nothing is returned and nothing is saved.
C4_UnknownKindIsTheError ==
    HasUnknownKind(loaded.actions)
        => /\ ~HasReturned
           /\ saved_actions = <<>>
           /\ HasRaised => error = "ValueError: Unknown action type"

\* C4: with an unknown kind at any position nothing is returned and nothing is
\* saved, and the run never ends as saved; the error is the unknown-kind error
\* exactly when the loop got as far as the first entry of unknown kind, and
\* otherwise the error of an earlier entry.
C4_UnknownKindEmitsNothing ==
    HasUnknownKind(loaded.actions)
        => /\ ~HasReturned
           /\ saved_actions = <<>>
           /\ pc \notin {"returned", "saved"}
           /\ HasRaised =>
                /\ idx <= FirstUnknownKind(loaded.actions)
                /\ (error = "ValueError: Unknown action type")
                    <=> (idx = FirstUnknownKind(loaded.actions))

\* the first entry was compiled, the second has an unknown kind, the run failed
C4_Witness ==
    /\ pc = "failed"
    /\ error = "ValueError: Unknown action type"
    /\ idx = 2
    /\ compiled_actions # <<>>
    /\ saved_actions = <<>>

----------------------------------------------------------------------------
\* the target set of a single-target entry is not exactly one account and region
BadCardinality(entry, region_default) ==
    LET ar == get_accounts_regions(entry.spec, region_default)
    IN  /\ entry.kind \in RegisteredKinds
        /\ ~allow_multiple_stacks(entry.kind)
        /\ Len(ar.accounts) # 1 \/ Len(ar.regions) # 1

\* C5: an entry of a single-target kind whose resolved targets are more than
\* one account, more than one region, or none of either, makes the expansion
\* fail: no compiled action comes from it and compile_deployspec does not
\* return.
C5_SingleTargetCardinality ==
    \A i \in Indices(loaded.actions) :
        BadCardinality(loaded.actions[i], default_region)
            => /\ ExpandedFrom(compiled_actions, i) = <<>>
               /\ ~HasReturned

----------------------------------------------------------------------------
\* the scope __get_tags is given for the entry, build when the entry has none
TagScope(entry) == IF entry.scope = "" THEN SCOPE_BUILD ELSE entry.scope

ScopeTagKeys == {TAG_APP, TAG_BRANCH, TAG_BUILD}

\* C10: whatever was compiled before it, a compiled action whose user tags and
\* whose deployment's initial tags hold none of the keys carries an app tag
\* only if its scope is app, branch or build, a branch tag only if its scope
\* is branch or build, and a build tag only if its scope is build.
C10_TagsFollowScope ==
    \A k \in Indices(compiled_actions) :
        LET c == compiled_actions[k]
            e == loaded.actions[c.entry]
        IN  (/\ DOMAIN loaded.deployment_details.tags \cap ScopeTagKeys = {}
             /\ DOMAIN GetDict(e.spec, "tags") \cap ScopeTagKeys = {})
            => /\ TAG_APP \in DOMAIN c.tags
                    => TagScope(e) \in {SCOPE_APP, SCOPE_BRANCH, SCOPE_BUILD}
               /\ TAG_BRANCH \in DOMAIN c.tags
                    => TagScope(e) \in {SCOPE_BRANCH, SCOPE_BUILD}
               /\ TAG_BUILD \in DOMAIN c.tags => TagScope(e) = SCOPE_BUILD

----------------------------------------------------------------------------
(* Properties of __apply_syntax_update                                     *)

\* {{ 'foo/bar' | lookup }}
SingleQuotedLookup ==
    <<"{", "{", " ", "'">> \o Chars_foo \o <<"/">> \o Chars_bar
    \o <<"'", " ", "|", " ", "l", "o", "o", "k", "u", "p", " ", "}", "}">>

\* C6: one call turns every stack-parameter value {{ foo.bar }} into exactly
\* {{ 'foo/bar' | lookup }}, the path in single quotes, and leaves every value
\* {{ core.Build }} as it is.
C6_RewriteToSingleQuotedLookup ==
    Len(history) >= 2 =>
        \A k \in DOMAIN history[1] :
            /\ history[1][k] = Legacy(Chars_foo, Chars_bar)
                => history[2][k] = SingleQuotedLookup
            /\ history[1][k] = Legacy(CONTEXT_ROOT, Chars_Build)
                => history[2][k] = history[1][k]

\* C7: the dict after the second call equals the dict after the first, for
\* every parameter dict, paths of one or of several segments alike.
C7_RewriteIsIdempotent ==
    Len(history) >= 3 => history[3] = history[2]

----------------------------------------------------------------------------
(* Properties of __get_stack_scope and __get_action_scope                  *)

C9_ScopePrecedence ==
    scope_result # "" =>
        LET action == scope_args.action
            dd == scope_args.deployment_details
            stack_name == IF GetList(action.spec, "stack_name") # <<>>
                          THEN action.spec["stack_name"]
                          ELSE GetList(action.spec, "StackName")
        IN  /\ action.scope # "" => scope_result = action.scope
            /\ (action.scope = "" /\ dd.scope # "") => scope_result = dd.scope
            /\ (action.scope = "" /\ dd.scope = "")
                => /\ scope_result = get_stack_scope(stack_name)
                   /\ stack_scope_result # "" => scope_result = stack_scope_result
                   /\ stack_name = <<>> => scope_result = SCOPE_BUILD
                   /\ IsIn(DD_BUILD, stack_name) => scope_result = SCOPE_BUILD

\* the deployment's scope decides although the action's stack name says build
\* and neither is the action's own scope
C9_Witness ==
    /\ scope_result = SCOPE_APP
    /\ scope_args.action.scope = ""
    /\ scope_args.deployment_details.scope = SCOPE_APP
    /\ IsIn(DD_BUILD, StackNameOf(scope_args.action))

----------------------------------------------------------------------------
(* Properties of one call of __get_tags and of get_accounts_regions        *)

\* the tags the scope implies: portfolio always, app from app scope on, branch
\* from branch scope on, build in build scope, each only if its value is known
ImpliedTags(scope, dd) ==
    LET sc == IF scope = "" THEN SCOPE_BUILD ELSE scope
        keys == (IF dd.portfolio # "" THEN {TAG_PORTFOLIO} ELSE {})
                \cup (IF sc \in {SCOPE_APP, SCOPE_BRANCH, SCOPE_BUILD} /\ dd.app # ""
                      THEN {TAG_APP} ELSE {})
                \cup (IF sc \in {SCOPE_BRANCH, SCOPE_BUILD} /\ dd.branch # ""
                      THEN {TAG_BRANCH} ELSE {})
                \cup (IF sc = SCOPE_BUILD /\ dd.build # "" THEN {TAG_BUILD} ELSE {})
    IN  [k \in keys |-> CASE k = TAG_PORTFOLIO -> dd.portfolio
                          [] k = TAG_APP -> dd.app
                          [] k = TAG_BRANCH -> dd.branch
                          [] k = TAG_BUILD -> dd.build]

\* the computed tags: the deployment's tags plus the scope-implied tags
ComputedTags(scope, dd) == Update(dd.tags, ImpliedTags(scope, dd))

\* C11: where the user's tags and the computed tags (the deployment's tags plus
\* the scope-implied ones) share a key, the returned tag holds the user's value;
\* every computed tag whose key the user did not supply is returned unchanged,
\* and no other tag is returned.
C11_UserTagsTakePrecedence ==
    (call_args.fn = "get_tags" /\ call_result.done) =>
        LET user == call_args.user_tags
            computed == ComputedTags(call_args.scope, call_args.deployment_details)
        IN  /\ \A k \in DOMAIN user : call_result.tags[k] = user[k]
            /\ \A k \in DOMAIN computed \ DOMAIN user : call_result.tags[k] = computed[k]
            /\ DOMAIN call_result.tags = DOMAIN computed \cup DOMAIN user

\* the user's Env and Portfolio tags replaced a deployment tag and a scope tag,
\* and the scope's App tag replaced the deployment's
C11_Witness ==
    /\ call_args.fn = "get_tags"
    /\ call_result.done
    /\ call_args.user_tags = [Env |-> "dev", Portfolio |-> "other"]
    /\ call_args.deployment_details.tags = [Env |-> "prod", App |-> "legacy"]
    /\ call_result.tags = [Env |-> "dev", Portfolio |-> "other", App |-> "ap",
                           Branch |-> "br"]

\* C20: the process default region is among the resolved regions only when the
\* entry gives no region at all; when it gives any, singular or plural, the
\* resolved regions are exactly those it gives.
C20_DefaultRegionOnlyWhenNoneGiven ==
    (call_args.fn = "get_accounts_regions" /\ call_result.done) =>
        LET given == GivenRegions(call_args.action_resource.spec)
        IN  call_result.regions =
                IF given = <<>> THEN <<call_args.region_default>> ELSE given

----------------------------------------------------------------------------
\* the namespaces and paths of the parameter values of the form {{ <ns>.<path> }}
LegacyForms ==
    {[ns |-> Chars_foo, path |-> Chars_bar],
     [ns |-> CONTEXT_ROOT, path |-> Chars_Build],
     [ns |-> Chars_foo, path |-> Chars_bar \o <<".">> \o Chars_baz],
     [ns |-> CONTEXT_ROOT \o <<"x">>, path |-> Chars_bar]}

\* the value was replaced by a lookup expression
IsLookup(before, after) ==
    after # before /\ IsIn(<<"|", " ", "l", "o", "o", "k", "u", "p">>, after)

\* C19: one call rewrites every value {{ <ns>.<path> }} whose namespace is not
\* exactly "core" to a lookup expression, a namespace that only begins with
\* "core" included, and leaves untouched only the values whose namespace is
\* exactly "core".
C19_OnlyExactRootIsExempt ==
    Len(history) >= 2 =>
        \A k \in DOMAIN history[1] : \A f \in LegacyForms :
            history[1][k] = Legacy(f.ns, f.path)
                => IF f.ns = CONTEXT_ROOT
                   THEN history[2][k] = history[1][k]
                   ELSE IsLookup(history[1][k], history[2][k])

----------------------------------------------------------------------------
(* Properties of the spec loader                                           *)

\* the positions of the archive's recognized spec files
Recognized(archive) == {i \in Indices(archive) : archive[i].name \in DOMAIN spec_mapping}

Parses(e) == reads(spec_mapping[e.name].reader, e.body)

\* an archive with at least one recognized spec file, all of which parse
Loadable(pkg) ==
    /\ pkg.key.ext = "zip"
    /\ Recognized(pkg.archive) # {}
    /\ \A i \in Recognized(pkg.archive) : Parses(pkg.archive[i])

\* the last recognized file of the task in the archive
LastOf(archive, task) ==
    Max({i \in Recognized(archive) : spec_mapping[archive[i].name].task = task})

\* C12: a run that loads an archive with at least one recognized spec file, all
\* of which parse, puts one object per archive entry, recognized or not, each
\* once, under the deployment's artefact prefix followed by the entry's
\* relative path, and returns a mapping with one DeploySpec for each task that
\* has a recognized file in the archive and for no other task.
C12_ArchiveIsCopiedAndSpecsReturned ==
    \A r \in Runs :
        (Loadable(package) /\ run_result[r].done) =>
            LET archive == package.archive
                tasks == {spec_mapping[archive[i].name].task : i \in Recognized(archive)}
            IN  /\ ~run_result[r].none
                /\ ~run_result[r].raised
                /\ PutsOf(r) = [i \in Indices(archive) |->
                                    upload_prefix \o "/" \o archive[i].name]
                /\ \A i \in Indices(archive) :
                        upload_prefix \o "/" \o archive[i].name \in DOMAIN sink
                /\ \A i \in Indices(archive) \ Recognized(archive) :
                        sink[upload_prefix \o "/" \o archive[i].name] = archive[i].body
                /\ \A i \in Recognized(archive) :
                        LET body == sink[upload_prefix \o "/" \o archive[i].name]
                        IN  /\ body.text = "canonical"
                            /\ body.data = archive[i].body.data
                            /\ body.fmt = archive[i].ext
                /\ DOMAIN run_result[r].specs.map = tasks
                /\ \A t \in tasks :
                        run_result[r].specs.map[t].actions =
                            archive[LastOf(archive, t)].body.data

\* a run has loaded an archive of a spec file, a template and a file that only
\* looks like a spec file
C12_Witness ==
    /\ Loadable(package)
    /\ run_result[1].done
    /\ Len(PutsOf(1)) = 3
    /\ Cardinality(Recognized(package.archive)) = 1
    /\ \E i \in Indices(package.archive) : package.archive[i].name = "sub/deployspec.yaml"
    /\ \E i \in Indices(package.archive) : package.archive[i].name = "templates/vpc.yaml"

----------------------------------------------------------------------------
\* the first recognized spec file of the archive that does not parse, 0 if none
FirstUnparsed(archive) ==
    LET bad == {i \in Recognized(archive) : ~Parses(archive[i])}
    IN  IF bad = {} THEN 0 ELSE Min(bad)

\* the package key is absent, or the archive holds no recognized spec file, or
\* a recognized spec file of it does not parse
Unloadable(pkg) ==
    \/ pkg.key.name = ""
    \/ /\ pkg.key.ext = "zip"
       /\ Recognized(pkg.archive) = {} \/ FirstUnparsed(pkg.archive) # 0

\* C13 as stated: with the package key absent, with no recognized spec file in
\* the archive, or with a recognized spec file that does not parse,
\* load_deployspec raises an error to its caller and returns no value.
C13_LoadFailureIsRaised ==
    \A r \in Runs :
        (Unloadable(package) /\ run_result[r].done) => run_result[r].raised

\* C13: in each of the three cases load_deployspec raises nothing: it returns
\* None, and it returns None only after an error.  The entries of the archive
\* before the spec file that does not parse, and all of them when no spec file
\* is recognized, have been put by then.
C13_LoadFailureReturnsNone ==
    \A r \in Runs :
        run_result[r].done =>
            /\ ~run_result[r].raised
            /\ Unloadable(package) => run_result[r].none
            /\ run_result[r].none <=> run_result[r].error # ""
            /\ (run_result[r].none /\ package.key.ext = "zip") =>
                    LET archive == package.archive
                        n == IF FirstUnparsed(archive) = 0 THEN Len(archive)
                             ELSE FirstUnparsed(archive) - 1
                    IN  PutsOf(r) = [i \in 1..n |-> get_artefacts_key(archive[i].name)]

\* a run returned None for an archive whose spec file does not parse, after it
\* had put an entry
C13_Witness ==
    /\ run_result[1].done
    /\ run_result[1].none
    /\ package.key.ext = "zip"
    /\ FirstUnparsed(package.archive) = 2
    /\ Len(PutsOf(1)) = 1

----------------------------------------------------------------------------
\* what one run alone puts, and the bucket it leaves
SingleRun == load_deployspec(package, EmptyDict)

\* C17: two runs over the same package for the same deployment, their puts
\* interleaved in any order, never leave in the bucket a key or a body that
\* one run alone would not have left; each run puts the keys one run alone
\* puts, and when both are done the bucket is as one run alone leaves it.
C17_ConcurrentRunsAreIdempotent ==
    /\ \A k \in DOMAIN sink : k \in DOMAIN SingleRun.bucket /\ sink[k] = SingleRun.bucket[k]
    /\ \A r \in Runs : run_result[r].done =>
            /\ PutsOf(r) = SingleRun.keys
            /\ run_result[r] = SingleRun.result
    /\ (\A r \in Runs : run_result[r].done) => sink = SingleRun.bucket

\* both runs are done and their puts alternated, a spec file among them
C17_Witness ==
    /\ \A r \in Runs : run_result[r].done /\ ~run_result[r].none
    /\ Len(puts) = 4
    /\ puts[1].run = 1 /\ puts[2].run = 2 /\ puts[3].run = 2 /\ puts[4].run = 1
    /\ puts[1].key # puts[3].key

----------------------------------------------------------------------------
(* The handler                                                             *)

\* the positions in the handler's log of the calls of `op`
CallsOf(op) == {i \in 1..Len(h_log) : h_log[i].op = op}

\* the positions of the calls of `op` for the task
TaskCalls(op, task) == {i \in CallsOf(op) : h_log[i].task = task}

\* C14: the deployment's facts are read exactly once per run, before the
\* package is loaded and before any artefact is written, and when reading
\* them fails the run is reported as failed with nothing loaded, compiled
\* or saved.
C14_FactsOnceBeforeAnyArtefact ==
    /\ Cardinality(CallsOf("get_facts")) <= 1
    /\ \A i \in CallsOf("load_deployspec") \cup CallsOf("put_object")
               \cup CallsOf("compile_deployspec") \cup CallsOf("save_actions")
               \cup CallsOf("save_state") :
           \E g \in CallsOf("get_facts") : g < i
    /\ puts # <<>> => CallsOf("get_facts") # {}
    /\ (h_pc = "done" /\ event = "valid") => Cardinality(CallsOf("get_facts")) = 1
    /\ (h_pc = "done" /\ Call("get_facts", "") \in faults /\ CallsOf("get_facts") # {}) =>
           /\ response.Status = COMPILE_FAILED
           /\ puts = <<>> /\ sink = EmptyDict
           /\ CallsOf("load_deployspec") \cup CallsOf("compile_deployspec")
                  \cup CallsOf("save_actions") \cup CallsOf("save_state") = {}

C14_Witness ==
    /\ h_pc = "done"
    /\ h_error = "FactsError"
    /\ response.Status = COMPILE_FAILED
    /\ package.archive # <<>>

IsPrefix(s, t) == Len(s) <= Len(t) /\ s = SubSeq(t, 1, Len(s))

\* the calls of `op` for the task that did not raise
Succeeded(op, task) ==
    IF Call(op, task) \in faults THEN {} ELSE TaskCalls(op, task)

\* C15: a task is listed in SpecsCompiled only after its actions and its
\* state have both been saved; the task at which the run fails is not
\* listed, the tasks completed before it stay listed and are reported as
\* SpecsCompiledBeforeFailure; SpecsCompiled is always a prefix of
\* SpecsFound, in the order of the loop.
C15_ListedOnlyAfterBothSaves ==
    summary # NoSummary =>
        /\ IsPrefix(summary.SpecsCompiled, summary.SpecsFound)
        /\ summary.SpecsFound = specs.order
        /\ \A i \in 1..Len(summary.SpecsCompiled) :
               LET t == summary.SpecsCompiled[i]
               IN  /\ Succeeded("compile_deployspec", t) # {}
                   /\ Succeeded("save_actions", t) # {}
                   /\ Succeeded("save_state", t) # {}
        /\ h_error # "" =>
               /\ ~Contains(summary.SpecsCompiled, Task)
               /\ summary.SpecsCompiled = SubSeq(specs.order, 1, task_idx - 1)
        /\ (h_pc = "done" /\ h_error # "") =>
               /\ response.Status = COMPILE_FAILED
               /\ response.FailedTask = Task
               /\ response.SpecsCompiledBeforeFailure = SubSeq(specs.order, 1, task_idx - 1)

C15_Witness ==
    /\ h_pc = "done"
    /\ faults = {}
    /\ response.Status = COMPILE_FAILED
    /\ response.FailedTask = TASK_TEARDOWN
    /\ CallsOf("compile_deployspec") # {}
    /\ h_log[Len(h_log) - 1] = Call("compile_deployspec", TASK_TEARDOWN)
    /\ Len(response.SpecsCompiledBeforeFailure) = 2

\* C16: the handler, invoked with an event that is no valid task payload,
\* raises an exception to its caller.
C16_InvalidEventRaises ==
    (h_pc = "done" /\ event # "valid") => response.how = "raised"

\* C18: for each task the spec is compiled (labels, expansion, scope and
\* tags, parameters, kinds) before the context renderer is applied, and
\* the renderer is the last call before the actions are saved.
C18_RendererRunsLast ==
    \A t \in Tasks :
        /\ \A c \in TaskCalls("compile_deployspec", t), a \in TaskCalls("apply_context", t) :
               c < a
        /\ \A v \in TaskCalls("save_actions", t) :
               v > 1 /\ h_log[v - 1] = Call("apply_context", t)

----------------------------------------------------------------------------
(* Properties of the rest of the compiler                                  *)

\* no value occurs twice in the list
NoDuplicates(list) == \A i, j \in Indices(list) : list[i] = list[j] => i = j

\* C21: the account list and the region list get_accounts_regions returns hold
\* no value twice, whatever singular and plural fields the entry has, a
\* plural list that repeats a value included.
C21_ResolvedListsAreDistinct ==
    (call_args.fn = "get_accounts_regions" /\ call_result.done) =>
        /\ NoDuplicates(call_result.accounts)
        /\ NoDuplicates(call_result.regions)

\* C22: the tags of a compiled action are those implied by the scope resolved
\* for the action (its own scope, else the deployment's, else the one inferred
\* from the stack name), the scope its template URL is resolved with.
C22_TagsFollowResolvedScope ==
    \A k \in Indices(compiled_actions) :
        LET c == compiled_actions[k]
            e == loaded.actions[c.entry]
            dd == loaded.deployment_details
        IN  (/\ HasStackFields(e.kind)
             /\ dd.tags = EmptyDict
             /\ GetDict(e.spec, "tags") = EmptyDict)
            => c.tags = ImpliedTags(get_action_scope(e, dd), dd)

\* C23: get_spec_label_map, get_accounts_regions, compile_action and
\* compile_deployspec leave the DeploySpec as it was: every entry, its plural
\* account and region lists included, equals what the run received.
C23_SpecIsUnchanged == deployspec = loaded.actions

\* the keys an entry can name its accounts and regions with
TargetAliases ==
    {"account", "accounts", "Account", "Accounts", "region", "regions", "Region", "Regions"}

\* C24: the parameter map the kind's validation is given for one expansion
\* binds account and region to the pair of that expansion, the pair in the
\* action's name, and holds no other account or region key of the entry.
C24_OneAccountAndRegionBinding ==
    (call_args.fn = "generate_action_command" /\ call_result.done
     /\ call_result.error = "") =>
        LET c == call_result.action[1]
        IN  /\ c.kwargs["account"] = call_args.account
            /\ c.kwargs["region"] = call_args.region
            /\ c.name = call_args.action_resource.label \o "-" \o call_args.account
                        \o "-" \o call_args.region
            /\ DOMAIN c.kwargs \cap TargetAliases = {"account", "region"}

\* C25: when the run has ended, every task whose compiled actions were saved
\* is listed in SpecsCompiled, and actions are saved only right after the
\* task's compile_deployspec returned them.
C25_SavedActionsAreReported ==
    /\ \A t \in Tasks : \A v \in TaskCalls("save_actions", t) :
           v > 1 /\ h_log[v - 1] = Call("compile_deployspec", t)
    /\ h_pc = "done" =>
           \A t \in Tasks :
               Succeeded("save_actions", t) # {} =>
                   summary # NoSummary /\ Contains(summary.SpecsCompiled, t)

UniqueLabels(actions) ==
    \A i, j \in Indices(actions) : actions[i].label = actions[j].label => i = j

\* C26: for a spec with unique labels, the label map's list for a label is,
\* element for element and in order, the names of the actions compiled from
\* that entry; so every name in the depends_on of a returned action is the
\* name of an action in the same returned list.
C26_LabelMapNamesCompiledActions ==
    UniqueLabels(loaded.actions) =>
        /\ pc \in {"loop", "returned", "saved"} =>
               \A i \in Indices(loaded.actions) :
                   (i < idx) =>
                       spec_label_map[loaded.actions[i].label]
                           = Names(ExpandedFrom(compiled_actions, i))
        /\ HasReturned =>
               \A k \in Indices(returned[1]) :
                   \A d \in Indices(returned[1][k].depends_on) :
                       \E k2 \in Indices(returned[1]) :
                           returned[1][k2].name = returned[1][k].depends_on[d]

C26_Witness ==
    /\ HasReturned
    /\ UniqueLabels(loaded.actions)
    /\ Len(loaded.actions) = 2
    /\ Len(returned[1]) >= 6
    /\ \E k \in Indices(returned[1]) : Len(returned[1][k].depends_on) >= 4

\* the template reference of a spec entry, <<>> when it has none
TemplateOf(entry) ==
    getany(entry.spec, <<"template_url", "TemplateUrl", "template", "Template">>, <<>>)

\* C27: the template URL of a compiled action whose template reference names
\* an entry of the loaded archive holds a key under which the loader wrote
\* that entry in this run, wherever in the archive the entry is and whatever
\* scope is resolved for the action.
C27_TemplateUrlNamesWrittenKey ==
    h_pc \in {"save_actions", "save_state"} =>
        \A k \in Indices(h_actions) :
            LET e == specs.map[Task].actions[h_actions[k].entry]
            IN  \A i \in Indices(package.archive) :
                    (TemplateOf(e) # <<>>
                     /\ JoinPath(TemplateOf(e)) = package.archive[i].name) =>
                        /\ get_artefacts_key(package.archive[i].name) \in DOMAIN sink
                        /\ h_actions[k].template_url =
                               store \o sep \o bucket_name \o sep
                               \o get_artefacts_key(package.archive[i].name)

\* C28: computing the tags of an action leaves the deployment's own tag map
\* as the run received it, and the tags of every compiled action are those
\* it gets when it is compiled first.
C28_TagsDoNotLeak ==
    /\ deployment_details.tags = loaded.deployment_details.tags
    /\ \A k \in Indices(compiled_actions) :
           LET c == compiled_actions[k]
               e == loaded.actions[c.entry]
           IN  HasStackFields(e.kind) =>
                   c.tags = get_tags(e.scope, loaded.deployment_details,
                                     GetDict(e.spec, "tags")).tags

----------------------------------------------------------------------------
(* Two concurrent runs with different packages                             *)

\* what the run leaves in an empty bucket when it runs alone
Alone(r) == load_deployspec(PackageOf(r), EmptyDict).bucket

BothDone == \A r \in Runs : run_result[r].done

C29_ConcurrentRunsLeaveOneRunsOutput ==
    BothDone => (sink = Alone(1) \/ sink = Alone(2))

\* the run that put the key last
LastWriter(key) ==
    puts[Max({i \in Indices(puts) : puts[i].key = key})].run

\* C29: with two runs for the same deployment whose packages differ, the
\* bucket holds, at every moment and for every interleaving of the puts,
\* exactly the keys either run has put so far, each with the body the run
\* that put it last writes for it: the last writer wins key by key, and the
\* bucket may hold objects of both runs.
C29_LastWriterWinsPerKey ==
    /\ DOMAIN sink = {puts[i].key : i \in Indices(puts)}
    /\ \A k \in DOMAIN sink :
           /\ k \in DOMAIN Alone(LastWriter(k))
           /\ sink[k] = Alone(LastWriter(k))[k]

\* both runs are done and the bucket holds one run's deployspec next to the
\* other run's template
C29_Witness ==
    /\ BothDone
    /\ sink # Alone(1)
    /\ sink # Alone(2)
    /\ \E k1, k2 \in DOMAIN Alone(1) \cap DOMAIN Alone(2) :
           /\ Alone(1)[k1] # Alone(2)[k1]
           /\ Alone(1)[k2] # Alone(2)[k2]
           /\ sink[k1] = Alone(1)[k1]
           /\ sink[k2] = Alone(2)[k2]

----------------------------------------------------------------------------
(* The statuses the handler reports                                        *)

\* the positions in the log at which the status was reported
Reported(status) == {i \in CallsOf("status") : h_log[i].task = status}

Terminal == Reported(COMPILE_COMPLETE) \cup Reported(COMPILE_FAILED)

====
